---- MODULE Spec2Model ----
(***************************************************************************)
(* Model of the InstagramBot command dispatcher (handlers/commandHandler)  *)
(* and of its economy engine (utils/userManager) with the economy          *)
(* commands (modules/commands/bank, send, daily, work, game).              *)
(*                                                                         *)
(* Strings that the code transforms (user names, command names, cooldown   *)
(* keys) are sequences of one-character strings, so that toLowerCase, the  *)
(* "@" stripping and the key concatenation are computed, not assumed.      *)
(* Times are milliseconds since the start of the run, as Date.now().       *)
(***************************************************************************)
EXTENDS Integers, Sequences, FiniteSets, TLC

VARIABLES
  now,            \* Date.now()
  economy,        \* economyCache.users : lower-cased username -> record
  workCooldowns,  \* work.cooldowns : Map(user -> end of cooldown)
  lastCall,       \* the last handler / dispatcher call and what it returned
  calls,          \* number of calls made so far
  commands,       \* CommandHandler.commands : Map(name -> command object)
  aliases,        \* CommandHandler.aliases  : Map(alias -> command name)
  cooldowns,      \* CommandHandler.cooldowns: Map(key -> end of cooldown)
  timers,         \* pending setTimeout callbacks of applyCooldown
  commandStats,   \* CommandHandler.commandStats : name -> count
  users,          \* usersCache.users : username -> commandUsage.count
  inflight,       \* dispatches whose handler promise is still pending
  regs,           \* number of command objects registered so far
  declarer,       \* per alias: the object whose registration declared it last
  commits,        \* per cooldown key: number of applyCooldown calls so far
  lastSuccEnd,    \* per cooldown key: when the last successful execution ended
  minGap,         \* per cooldown key: least time seen from the end of one
                  \* successful execution to the start of the next one
  disk,           \* data/economy.json : the users table as last written
  script,         \* number of steps of the end-to-end scenario made so far,
                  \* Null once the calls have left the scenario
  applied,        \* the economy operations whose handlers have run under
                  \* the dispatcher, in the order they ran, each with the
                  \* outcome it reported
  events          \* EventHandler.events : the event log, in array order

econVars == <<economy, workCooldowns, disk>>
regVars  == <<commands, aliases, regs, declarer>>
dispVars == <<cooldowns, timers, commandStats, users, inflight, commits,
              lastSuccEnd, minGap>>
vars     == <<now, economy, workCooldowns, lastCall, calls, commands, aliases,
              cooldowns, timers, commandStats, users, inflight, regs, declarer,
              commits, lastSuccEnd, minGap, disk, script, applied, events>>

(***************************************************************************)
(* Bounds of the model                                                     *)
(***************************************************************************)
MaxCalls == 2          \* handler calls explored in the economy specification
MaxDayTicks == 1       \* one-day clock steps in the economy specification

(***************************************************************************)
(* Values                                                                  *)
(***************************************************************************)
Null == 0 - 1          \* JavaScript null (timestamps are never negative)

Min(a, b) == IF a < b THEN a ELSE b
Abs(a) == IF a < 0 THEN 0 - a ELSE a

\* String.prototype.toLowerCase on the alphabet the model uses
LowerChar(c) ==
  CASE c = "A" -> "a"
    [] c = "B" -> "b"
    [] c = "C" -> "c"
    [] OTHER -> c

toLowerCase(s) == [i \in 1..Len(s) |-> LowerChar(s[i])]

\* params[0].replace(/^@/, '') of the send command
StripAt(s) == IF Len(s) > 0 /\ s[1] = "@" THEN Tail(s) ELSE s

\* A command parameter after parseInt, or the keyword 'all'
IntArg(n) == [kind |-> "int", val |-> n]
NaNArg == [kind |-> "nan", val |-> 0]
AllArg == [kind |-> "all", val |-> 0]

(***************************************************************************)
(* utils/userManager.js : settings                                         *)
(***************************************************************************)
maxLoanAmount == 5000
loanDuration == 7 * 24 * 60 * 60 * 1000
DAILY_REWARD_amount == 500
DAILY_REWARD_cooldown == 24 * 60 * 60 * 1000
StreakResetGap == 48 * 60 * 60 * 1000
StartingBalance == 1000
TransactionLimit == 50

(***************************************************************************)
(* utils/userManager.js : the ledger                                       *)
(***************************************************************************)
NewEconomy ==
  [balance |-> StartingBalance, bank |-> 0, loan |-> 0, loanDue |-> Null,
   lastDaily |-> Null, dailyStreak |-> 0, transactions |-> <<>>]

\* initializeUserEconomy: the record is created only when it is missing
initializeUserEconomy(eco, username) ==
  LET u == toLowerCase(username)
  IN IF u \in DOMAIN eco THEN eco ELSE eco @@ (u :> NewEconomy)

\* getUserEconomy returns economy.users[username], creating it first
getUserEconomy(eco, username) ==
  initializeUserEconomy(eco, username)[toLowerCase(username)]

Tx(type, amount, t) == [type |-> type, amount |-> amount, timestamp |-> t]

\* economyData.users[username] = economy; saveEconomy(economyData)
Store(eco, u, rec) == [initializeUserEconomy(eco, u) EXCEPT ![u] = rec]

Fail(eco, username) ==
  [eco |-> initializeUserEconomy(eco, username), success |-> FALSE]

\* as canCollectDaily, never reporting a cooldown
canCollectDailyNoInterval(eco, username, t) == TRUE

canCollectDaily(eco, username, t) ==
  LET e == getUserEconomy(eco, username)
  IN IF e.lastDaily = Null THEN TRUE
     ELSE t - e.lastDaily >= DAILY_REWARD_cooldown

\* as collectDaily, without the reset of the streak after a long gap
collectDailyNoReset(eco, username, t) ==
  LET u == toLowerCase(username)
      e == getUserEconomy(eco, u)
      streak == e.dailyStreak + 1
      rec == [e EXCEPT !.balance = @ + DAILY_REWARD_amount,
                       !.lastDaily = t,
                       !.dailyStreak = streak,
                       !.transactions =
                          Append(@, Tx("daily", DAILY_REWARD_amount, t))]
  IN [eco |-> Store(eco, u, rec), success |-> TRUE,
      amount |-> DAILY_REWARD_amount, streak |-> streak]

collectDaily(eco, username, t) ==
  LET u == toLowerCase(username)
      e == getUserEconomy(eco, u)
      old == IF e.lastDaily # Null /\ t - e.lastDaily > StreakResetGap
             THEN 0 ELSE e.dailyStreak
      streak == old + 1
      rec == [e EXCEPT !.balance = @ + DAILY_REWARD_amount,
                       !.lastDaily = t,
                       !.dailyStreak = streak,
                       !.transactions =
                          Append(@, Tx("daily", DAILY_REWARD_amount, t))]
  IN [eco |-> Store(eco, u, rec), success |-> TRUE,
      amount |-> DAILY_REWARD_amount, streak |-> streak]

\* transactions.slice(-50) once the list is longer than 50
SliceLast(s, n) ==
  IF Len(s) > n THEN SubSeq(s, Len(s) - n + 1, Len(s)) ELSE s

\* as updateBalance, without the floor at zero
updateBalanceNoFloor(eco, username, amount, t) ==
  LET u == toLowerCase(username)
      e == getUserEconomy(eco, u)
      type == IF amount >= 0 THEN "credit" ELSE "debit"
      rec == [e EXCEPT !.balance = @ + amount,
                       !.transactions =
                          SliceLast(Append(@, Tx(type, Abs(amount), t)),
                                    TransactionLimit)]
  IN [eco |-> Store(eco, u, rec), success |-> TRUE,
      balance |-> e.balance + amount]

updateBalance(eco, username, amount, t) ==
  LET u == toLowerCase(username)
      e == getUserEconomy(eco, u)
      type == IF amount >= 0 THEN "credit" ELSE "debit"
      sum == e.balance + amount
      bal == IF sum < 0 THEN 0 ELSE sum
      rec == [e EXCEPT !.balance = bal,
                       !.transactions =
                          SliceLast(Append(@, Tx(type, Abs(amount), t)),
                                    TransactionLimit)]
  IN [eco |-> Store(eco, u, rec), success |-> TRUE, balance |-> bal]

\* as bankDeposit, debiting the wallet without crediting the bank
bankDepositNoCredit(eco, username, amount, t) ==
  LET u == toLowerCase(username)
      e == getUserEconomy(eco, u)
      rec == [e EXCEPT !.balance = @ - amount,
                       !.transactions = Append(@, Tx("deposit", amount, t))]
  IN IF e.balance < amount THEN Fail(eco, u)
     ELSE [eco |-> Store(eco, u, rec), success |-> TRUE]

\* as bankDeposit, moving what the wallet holds when the amount exceeds it
bankDepositPartial(eco, username, amount, t) ==
  LET u == toLowerCase(username)
      e == getUserEconomy(eco, u)
      moved == Min(amount, e.balance)
      rec == [e EXCEPT !.balance = @ - moved,
                       !.bank = @ + moved,
                       !.transactions = Append(@, Tx("deposit", moved, t))]
  IN [eco |-> Store(eco, u, rec), success |-> e.balance >= amount]

bankDeposit(eco, username, amount, t) ==
  LET u == toLowerCase(username)
      e == getUserEconomy(eco, u)
      rec == [e EXCEPT !.balance = @ - amount,
                       !.bank = @ + amount,
                       !.transactions = Append(@, Tx("deposit", amount, t))]
  IN IF e.balance < amount THEN Fail(eco, u)
     ELSE [eco |-> Store(eco, u, rec), success |-> TRUE]

\* as bankWithdraw, crediting the wallet without debiting the bank
bankWithdrawNoDebit(eco, username, amount, t) ==
  LET u == toLowerCase(username)
      e == getUserEconomy(eco, u)
      rec == [e EXCEPT !.balance = @ + amount,
                       !.transactions = Append(@, Tx("withdraw", amount, t))]
  IN IF e.bank < amount THEN Fail(eco, u)
     ELSE [eco |-> Store(eco, u, rec), success |-> TRUE]

\* as bankWithdraw, without username = username.toLowerCase(): the record
\* read through getUserEconomy is stored under the name as typed
bankWithdrawAsTyped(eco, username, amount, t) ==
  LET u == toLowerCase(username)
      e == getUserEconomy(eco, u)
      rec == [e EXCEPT !.bank = @ - amount,
                       !.balance = @ + amount,
                       !.transactions = Append(@, Tx("withdraw", amount, t))]
      stored == Store(eco, u, rec)
  IN IF e.bank < amount THEN Fail(eco, u)
     ELSE [eco |-> [k \in DOMAIN stored \cup {username} |->
                      IF k = username THEN rec ELSE stored[k]],
           success |-> TRUE]

bankWithdraw(eco, username, amount, t) ==
  LET u == toLowerCase(username)
      e == getUserEconomy(eco, u)
      rec == [e EXCEPT !.bank = @ - amount,
                       !.balance = @ + amount,
                       !.transactions = Append(@, Tx("withdraw", amount, t))]
  IN IF e.bank < amount THEN Fail(eco, u)
     ELSE [eco |-> Store(eco, u, rec), success |-> TRUE]

\* as bankLoan, without the check for an outstanding loan
bankLoanNoOutstandingCheck(eco, username, amount, t) ==
  LET u == toLowerCase(username)
      e == getUserEconomy(eco, u)
      rec == [e EXCEPT !.loan = amount,
                       !.loanDue = t + loanDuration,
                       !.balance = @ + amount,
                       !.transactions = Append(@, Tx("loan", amount, t))]
  IN IF amount > maxLoanAmount THEN Fail(eco, u)
     ELSE [eco |-> Store(eco, u, rec), success |-> TRUE]

\* as bankLoan, adding the new principal to the loan but not to the wallet
bankLoanNoCredit(eco, username, amount, t) ==
  LET u == toLowerCase(username)
      e == getUserEconomy(eco, u)
      rec == [e EXCEPT !.loan = amount,
                       !.loanDue = t + loanDuration,
                       !.transactions = Append(@, Tx("loan", amount, t))]
  IN IF e.loan > 0 THEN Fail(eco, u)
     ELSE IF amount > maxLoanAmount THEN Fail(eco, u)
     ELSE [eco |-> Store(eco, u, rec), success |-> TRUE]

\* as bankLoan, without the check against maxLoanAmount
bankLoanNoMaxCheck(eco, username, amount, t) ==
  LET u == toLowerCase(username)
      e == getUserEconomy(eco, u)
      rec == [e EXCEPT !.loan = amount,
                       !.loanDue = t + loanDuration,
                       !.balance = @ + amount,
                       !.transactions = Append(@, Tx("loan", amount, t))]
  IN IF e.loan > 0 THEN Fail(eco, u)
     ELSE [eco |-> Store(eco, u, rec), success |-> TRUE]

bankLoan(eco, username, amount, t) ==
  LET u == toLowerCase(username)
      e == getUserEconomy(eco, u)
      rec == [e EXCEPT !.loan = amount,
                       !.loanDue = t + loanDuration,
                       !.balance = @ + amount,
                       !.transactions = Append(@, Tx("loan", amount, t))]
  IN IF e.loan > 0 THEN Fail(eco, u)
     ELSE IF amount > maxLoanAmount THEN Fail(eco, u)
     ELSE [eco |-> Store(eco, u, rec), success |-> TRUE]

\* as repayLoan, applying the requested amount without capping it
repayLoanNoCap(eco, username, amount, t) ==
  LET u == toLowerCase(username)
      e == getUserEconomy(eco, u)
      left == e.loan - amount
      rec == [e EXCEPT !.loan = left,
                       !.balance = @ - amount,
                       !.loanDue = IF left <= 0 THEN Null ELSE @,
                       !.transactions = Append(@, Tx("repayment", amount, t))]
  IN IF e.loan <= 0 THEN Fail(eco, u)
     ELSE IF e.balance < amount THEN Fail(eco, u)
     ELSE [eco |-> Store(eco, u, rec), success |-> TRUE]

\* as repayLoan, leaving the due date in place after the last payment
repayLoanKeepsDue(eco, username, amount, t) ==
  LET u == toLowerCase(username)
      e == getUserEconomy(eco, u)
      paid == IF amount > e.loan THEN e.loan ELSE amount
      rec == [e EXCEPT !.loan = @ - paid,
                       !.balance = @ - paid,
                       !.transactions = Append(@, Tx("repayment", paid, t))]
  IN IF e.loan <= 0 THEN Fail(eco, u)
     ELSE IF e.balance < amount THEN Fail(eco, u)
     ELSE [eco |-> Store(eco, u, rec), success |-> TRUE]

repayLoan(eco, username, amount, t) ==
  LET u == toLowerCase(username)
      e == getUserEconomy(eco, u)
      paid == IF amount > e.loan THEN e.loan ELSE amount
      left == e.loan - paid
      rec == [e EXCEPT !.loan = left,
                       !.balance = @ - paid,
                       !.loanDue = IF left <= 0 THEN Null ELSE @,
                       !.transactions = Append(@, Tx("repayment", paid, t))]
  IN IF e.loan <= 0 THEN Fail(eco, u)
     ELSE IF e.balance < amount THEN Fail(eco, u)
     ELSE [eco |-> Store(eco, u, rec), success |-> TRUE]

\* as sendMoney, crediting the receiver without debiting the sender
sendMoneyNoDebit(eco, senderUsername, receiverUsername, amount, t) ==
  LET s == toLowerCase(senderUsername)
      r == toLowerCase(receiverUsername)
      se == getUserEconomy(eco, s)
      eco1 == initializeUserEconomy(initializeUserEconomy(eco, s), r)
      srec == [se EXCEPT !.transactions = Append(@, Tx("send", amount, t))]
      eco2 == [eco1 EXCEPT ![s] = srec]
      rrec == [eco2[r] EXCEPT
                 !.balance = @ + amount,
                 !.transactions = Append(@, Tx("receive", amount, t))]
  IN IF se.balance < amount THEN Fail(eco, s)
     ELSE [eco |-> [eco2 EXCEPT ![r] = rrec], success |-> TRUE]

\* as sendMoney, crediting the receiver without a record in its history
sendMoneyNoReceiverRecord(eco, senderUsername, receiverUsername, amount, t) ==
  LET s == toLowerCase(senderUsername)
      r == toLowerCase(receiverUsername)
      se == getUserEconomy(eco, s)
      eco1 == initializeUserEconomy(initializeUserEconomy(eco, s), r)
      srec == [se EXCEPT !.balance = @ - amount,
                         !.transactions = Append(@, Tx("send", amount, t))]
      eco2 == [eco1 EXCEPT ![s] = srec]
      rrec == [eco2[r] EXCEPT !.balance = @ + amount]
  IN IF se.balance < amount THEN Fail(eco, s)
     ELSE [eco |-> [eco2 EXCEPT ![r] = rrec], success |-> TRUE]

\* senderEconomy and receiverEconomy are the same object when the two
\* lower-cased names are equal: the debit and the credit then cancel and
\* both transaction records land in the one list.
sendMoney(eco, senderUsername, receiverUsername, amount, t) ==
  LET s == toLowerCase(senderUsername)
      r == toLowerCase(receiverUsername)
      se == getUserEconomy(eco, s)
      eco1 == initializeUserEconomy(initializeUserEconomy(eco, s), r)
      srec == [se EXCEPT !.balance = @ - amount,
                         !.transactions = Append(@, Tx("send", amount, t))]
      eco2 == [eco1 EXCEPT ![s] = srec]
      rrec == [eco2[r] EXCEPT
                 !.balance = @ + amount,
                 !.transactions = Append(@, Tx("receive", amount, t))]
      selfrec == [se EXCEPT
                    !.transactions =
                       Append(Append(@, Tx("send", amount, t)),
                              Tx("receive", amount, t))]
  IN IF se.balance < amount THEN Fail(eco, s)
     ELSE IF s = r THEN [eco |-> [eco1 EXCEPT ![s] = selfrec],
                         success |-> TRUE]
     ELSE [eco |-> [eco2 EXCEPT ![r] = rrec], success |-> TRUE]

(***************************************************************************)
(* Inputs of the economy commands                                          *)
(***************************************************************************)
Callers == {<<"a">>, <<"B">>}
Recipients == {<<"@", "A">>, <<"b">>}
AmountArgs == {NaNArg, AllArg, IntArg(0 - 500), IntArg(0), IntArg(500),
               IntArg(1500), IntArg(6000)}
Deltas == {0 - 2000, 100}          \* direct updateBalance amounts
\* net payout of a game as a multiple of the bet: loss, tie (rock paper
\* scissors only), two-symbol slot win
GameMultipliers == {0 - 1, 0, 2}
workMinReward == 50
workMaxReward == 200
workCooldownTime == 30             \* minutes

NoUser == <<>>

Call(op, user, to, amount, success) ==
  [op |-> op, user |-> user, to |-> to, amount |-> amount,
   success |-> success]

\* parseInt(params[i]): 'all' is not a number
parseInt(arg) == IF arg.kind = "int" THEN arg ELSE NaNArg

\* as InvalidAmount, testing isNaN only
InvalidAmountNaNOnly(arg) == arg.kind = "nan"

\* isNaN(amount) || amount <= 0
InvalidAmount(arg) == arg.kind = "nan" \/ arg.val <= 0

\* In the command handlers below every saveEconomy succeeds, so the ledger
\* file follows the cache; writes that fail are explored by EngineCall.
Returned(op, user, to, amount, r) ==
  /\ economy' = r.eco
  /\ disk' = economy'
  /\ lastCall' = Call(op, user, to, amount, r.success)
  /\ calls' = calls + 1

Rejected(op, user, to, amount) ==
  /\ economy' = economy
  /\ disk' = economy'
  /\ lastCall' = Call(op, user, to, amount, FALSE)
  /\ calls' = calls + 1

(***************************************************************************)
(* modules/commands/bank.js                                                *)
(***************************************************************************)
handleDeposit(user, arg) ==
  LET amount == parseInt(arg)
  IN /\ IF InvalidAmount(amount)
        THEN Rejected("deposit", user, NoUser, 0)
        ELSE Returned("deposit", user, NoUser, amount.val,
                      bankDeposit(economy, user, amount.val, now))
     /\ UNCHANGED <<now, workCooldowns, regVars, dispVars>>

handleWithdraw(user, arg) ==
  LET eco1 == IF arg.kind = "all"
              THEN initializeUserEconomy(economy, user) ELSE economy
      amount == IF arg.kind = "all"
                THEN IntArg(getUserEconomy(economy, user).bank)
                ELSE parseInt(arg)
  IN /\ IF InvalidAmount(amount)
        THEN /\ economy' = eco1
             /\ disk' = economy'
             /\ lastCall' = Call("withdraw", user, NoUser, 0, FALSE)
             /\ calls' = calls + 1
        ELSE Returned("withdraw", user, NoUser, amount.val,
                      bankWithdraw(eco1, user, amount.val, now))
     /\ UNCHANGED <<now, workCooldowns, regVars, dispVars>>

handleLoan(user, arg) ==
  LET amount == parseInt(arg)
  IN /\ IF InvalidAmount(amount)
        THEN Rejected("loan", user, NoUser, 0)
        ELSE Returned("loan", user, NoUser, amount.val,
                      bankLoan(economy, user, amount.val, now))
     /\ UNCHANGED <<now, workCooldowns, regVars, dispVars>>

handleRepay(user, arg) ==
  LET eco1 == IF arg.kind = "all"
              THEN initializeUserEconomy(economy, user) ELSE economy
      e == getUserEconomy(economy, user)
      amount == IF arg.kind = "all"
                THEN IntArg(Min(e.loan, e.balance))
                ELSE parseInt(arg)
  IN /\ IF InvalidAmount(amount)
        THEN /\ economy' = eco1
             /\ disk' = economy'
             /\ lastCall' = Call("repay", user, NoUser, 0, FALSE)
             /\ calls' = calls + 1
        ELSE Returned("repay", user, NoUser, amount.val,
                      repayLoan(eco1, user, amount.val, now))
     /\ UNCHANGED <<now, workCooldowns, regVars, dispVars>>

(***************************************************************************)
(* modules/commands/send.js                                                *)
(***************************************************************************)
\* as SelfTransfer, comparing the two spellings as typed
SelfTransferCaseSensitive(user, recipient) == recipient = user

\* recipient.toLowerCase() === user.toLowerCase()
SelfTransfer(user, recipient) == toLowerCase(recipient) = toLowerCase(user)

sendExecute(user, param0, arg) ==
  LET recipient == StripAt(param0)
      amount == parseInt(arg)
      eco1 == initializeUserEconomy(economy, user)
  IN /\ IF InvalidAmount(amount)
        THEN Rejected("send", user, recipient, 0)
        ELSE IF SelfTransfer(user, recipient)
        THEN Rejected("send", user, recipient, amount.val)
        ELSE IF getUserEconomy(economy, user).balance < amount.val
        THEN /\ economy' = eco1
             /\ disk' = economy'
             /\ lastCall' = Call("send", user, recipient, amount.val, FALSE)
             /\ calls' = calls + 1
        ELSE Returned("send", user, recipient, amount.val,
                      sendMoney(eco1, user, recipient, amount.val, now))
     /\ UNCHANGED <<now, workCooldowns, regVars, dispVars>>

(***************************************************************************)
(* daily, work and game commands; direct balance adjustment                *)
(***************************************************************************)
\* the amount daily.execute reports: result.amount + Math.floor(streakBonus)
\* with streakBonus = result.amount * 0.1 * (result.streak - 1) from the
\* second day of a streak on
totalReward(result) ==
  IF result.streak > 1
  THEN result.amount + (result.amount * (result.streak - 1)) \div 10
  ELSE result.amount

dailyExecute(user) ==
  /\ IF ~canCollectDaily(economy, user, now)
     THEN /\ economy' = initializeUserEconomy(economy, user)
          /\ disk' = economy'
          /\ lastCall' = Call("daily", user, NoUser, 0, FALSE)
          /\ calls' = calls + 1
     ELSE Returned("daily", user, NoUser,
                   totalReward(collectDaily(economy, user, now)),
                   collectDaily(economy, user, now))
  /\ UNCHANGED <<now, workCooldowns, regVars, dispVars>>

workExecute(user, reward) ==
  /\ IF user \in DOMAIN workCooldowns /\ now < workCooldowns[user]
     THEN /\ Rejected("work", user, NoUser, 0)
          /\ UNCHANGED workCooldowns
     ELSE /\ Returned("work", user, NoUser, reward,
                      updateBalance(economy, user, reward, now))
          /\ workCooldowns' =
               [k \in DOMAIN workCooldowns \cup {user} |->
                  IF k = user THEN now + workCooldownTime * 60 * 1000
                  ELSE workCooldowns[k]]
  /\ UNCHANGED <<now, regVars, dispVars>>

\* playRockPaperScissors / playSlotMachine / playCoinFlip / playDiceGame:
\* the bet is validated against the wallet, then the game manager applies
\* the net payout bet * m through updateBalance (a tie applies nothing).
gameExecute(user, arg, m) ==
  LET betAmount == parseInt(arg)
      eco1 == initializeUserEconomy(economy, user)
  IN /\ IF InvalidAmount(betAmount)
        THEN Rejected("game", user, NoUser, 0)
        ELSE IF getUserEconomy(economy, user).balance < betAmount.val
        THEN /\ economy' = eco1
             /\ disk' = economy'
             /\ lastCall' = Call("game", user, NoUser, betAmount.val, FALSE)
             /\ calls' = calls + 1
        ELSE IF m = 0
        THEN /\ economy' = eco1
             /\ disk' = economy'
             /\ lastCall' = Call("game", user, NoUser, 0, TRUE)
             /\ calls' = calls + 1
        ELSE Returned("game", user, NoUser, betAmount.val * m,
                      updateBalance(eco1, user, betAmount.val * m, now))
     /\ UNCHANGED <<now, workCooldowns, regVars, dispVars>>

\* updateBalance called by a custom command (GETTING_STARTED.md)
adjustBalance(user, delta) ==
  /\ Returned("adjust", user, NoUser, delta,
              updateBalance(economy, user, delta, now))
  /\ UNCHANGED <<now, workCooldowns, regVars, dispVars>>

\* the wall clock, in steps of one day
Day == 24 * 60 * 60 * 1000
TickDay ==
  /\ now < MaxDayTicks * Day
  /\ now' = now + Day
  /\ UNCHANGED <<econVars, lastCall, calls, regVars, dispVars, script, applied, events>>

NoCall == [op |-> "none", user |-> NoUser, to |-> NoUser, amount |-> 0,
           success |-> FALSE]

Empty == [k \in {} |-> 0]

EconInit ==
  /\ now = 0
  /\ economy = Empty
  /\ workCooldowns = Empty
  /\ lastCall = NoCall
  /\ calls = 0
  /\ commands = Empty
  /\ aliases = Empty
  /\ cooldowns = Empty
  /\ timers = {}
  /\ commandStats = Empty
  /\ users = Empty
  /\ inflight = {}
  /\ regs = 0
  /\ declarer = Empty
  /\ commits = Empty
  /\ lastSuccEnd = Empty
  /\ minGap = Empty
  /\ disk = Empty
  /\ script = Null
  /\ applied = <<>>
  /\ events = <<>>

\* the calls of the economy commands; every write of the ledger file succeeds
EconNext ==
  \/ \E u \in Callers, a \in AmountArgs :
       calls < MaxCalls /\ handleDeposit(u, a) /\ UNCHANGED <<script, applied, events>>
  \/ \E u \in Callers, a \in AmountArgs :
       calls < MaxCalls /\ handleWithdraw(u, a) /\ UNCHANGED <<script, applied, events>>
  \/ \E u \in Callers, a \in AmountArgs :
       calls < MaxCalls /\ handleLoan(u, a) /\ UNCHANGED <<script, applied, events>>
  \/ \E u \in Callers, a \in AmountArgs :
       calls < MaxCalls /\ handleRepay(u, a) /\ UNCHANGED <<script, applied, events>>
  \/ \E u \in Callers, r \in Recipients, a \in AmountArgs :
       calls < MaxCalls /\ sendExecute(u, r, a) /\ UNCHANGED <<script, applied, events>>
  \/ \E u \in Callers :
       calls < MaxCalls /\ dailyExecute(u) /\ UNCHANGED <<script, applied, events>>
  \/ \E u \in Callers, w \in {workMinReward, workMaxReward} :
       calls < MaxCalls /\ workExecute(u, w) /\ UNCHANGED <<script, applied, events>>
  \/ \E u \in Callers, a \in AmountArgs, m \in GameMultipliers :
       calls < MaxCalls /\ gameExecute(u, a, m) /\ UNCHANGED <<script, applied, events>>
  \/ \E u \in Callers, d \in Deltas :
       calls < MaxCalls /\ adjustBalance(u, d) /\ UNCHANGED <<script, applied, events>>
  \/ TickDay

EconSpec == EconInit /\ [][EconNext]_vars

(***************************************************************************)
(* The commands whose outcome depends on the time of day, over several     *)
(* days                                                                    *)
(***************************************************************************)
MaxDailyCalls == 3     \* commands issued in the daily specification
MaxDays == 3           \* days that pass in the daily specification

DayPasses ==
  /\ now < MaxDays * Day
  /\ now' = now + Day
  /\ UNCHANGED <<econVars, lastCall, calls, regVars, dispVars, script, applied, events>>

DailyNext ==
  \/ \E u \in Callers :
       calls < MaxDailyCalls /\ dailyExecute(u) /\ UNCHANGED <<script, applied, events>>
  \/ \E u \in Callers, w \in {workMinReward, workMaxReward} :
       calls < MaxDailyCalls /\ workExecute(u, w) /\ UNCHANGED <<script, applied, events>>
  \/ \E u \in Callers :
       calls < MaxDailyCalls /\ handleLoan(u, IntArg(500))
         /\ UNCHANGED <<script, applied, events>>
  \/ DayPasses

DailySpec == EconInit /\ [][DailyNext]_vars

(***************************************************************************)
(* The end-to-end scenario: alice and bob issue economy commands against   *)
(* an empty ledger                                                         *)
(***************************************************************************)
MaxScenarioCalls == 5  \* commands issued in the scenario specification

alice == <<"a", "l", "i", "c", "e">>
bob == <<"b", "o", "b">>

Command(op, user, to, arg) ==
  [op |-> op, user |-> user, to |-> to, arg |-> arg]

\* daily, bank deposit 1000, bank loan 2000, send bob 100, bank repay 2000
Scenario ==
  <<Command("daily", alice, NoUser, NaNArg),
    Command("deposit", alice, NoUser, IntArg(1000)),
    Command("loan", alice, NoUser, IntArg(2000)),
    Command("send", alice, bob, IntArg(100)),
    Command("repay", alice, NoUser, IntArg(2000))>>

\* the commands of the scenario and some that leave it
ScenarioCommands ==
  {Scenario[i] : i \in 1..Len(Scenario)} \cup
  {Command("daily", bob, NoUser, NaNArg),
   Command("send", bob, alice, IntArg(100)),
   Command("withdraw", alice, NoUser, AllArg)}

\* the command handler that the command names
Run(c) ==
  \/ c.op = "daily" /\ dailyExecute(c.user)
  \/ c.op = "deposit" /\ handleDeposit(c.user, c.arg)
  \/ c.op = "withdraw" /\ handleWithdraw(c.user, c.arg)
  \/ c.op = "loan" /\ handleLoan(c.user, c.arg)
  \/ c.op = "repay" /\ handleRepay(c.user, c.arg)
  \/ c.op = "send" /\ sendExecute(c.user, c.to, c.arg)

\* script counts the calls while they follow the scenario step by step
ScenarioCall(c) ==
  /\ calls < MaxScenarioCalls
  /\ Run(c)
  /\ script' = IF /\ script = calls
                  /\ calls < Len(Scenario)
                  /\ c = Scenario[calls + 1]
               THEN script + 1 ELSE Null
  /\ UNCHANGED <<applied, events>>

ScenarioInit ==
  /\ now = 0
  /\ economy = Empty
  /\ workCooldowns = Empty
  /\ lastCall = NoCall
  /\ calls = 0
  /\ commands = Empty
  /\ aliases = Empty
  /\ cooldowns = Empty
  /\ timers = {}
  /\ commandStats = Empty
  /\ users = Empty
  /\ inflight = {}
  /\ regs = 0
  /\ declarer = Empty
  /\ commits = Empty
  /\ lastSuccEnd = Empty
  /\ minGap = Empty
  /\ disk = Empty
  /\ script = 0
  /\ applied = <<>>
  /\ events = <<>>

ScenarioNext == \E c \in ScenarioCommands : ScenarioCall(c)

ScenarioSpec == ScenarioInit /\ [][ScenarioNext]_vars

(***************************************************************************)
(* Economy commands against a ledger whose first user has a full history   *)
(***************************************************************************)
MaxHistoryCalls == 3   \* commands issued in the history specification

\* the record of a user after TransactionLimit work rewards of workMinReward
LongStandingUser ==
  [balance |-> StartingBalance + TransactionLimit * workMinReward,
   bank |-> 0, loan |-> 0, loanDue |-> Null, lastDaily |-> Null,
   dailyStreak |-> 0,
   transactions |-> [i \in 1..TransactionLimit |->
                       Tx("credit", workMinReward, 0)]]

\* direct updateBalance amounts: a penalty, a reward, and nothing
HistoryDeltas == Deltas \cup {0}

HistoryInit ==
  /\ now = 0
  /\ economy = (<<"a">> :> LongStandingUser)
  /\ disk = economy
  /\ workCooldowns = Empty
  /\ lastCall = NoCall
  /\ calls = 0
  /\ commands = Empty
  /\ aliases = Empty
  /\ cooldowns = Empty
  /\ timers = {}
  /\ commandStats = Empty
  /\ users = Empty
  /\ inflight = {}
  /\ regs = 0
  /\ declarer = Empty
  /\ commits = Empty
  /\ lastSuccEnd = Empty
  /\ minGap = Empty
  /\ script = Null
  /\ applied = <<>>
  /\ events = <<>>

HistoryNext ==
  \/ \E u \in Callers :
       /\ calls < MaxHistoryCalls
       /\ handleDeposit(u, IntArg(500))
       /\ UNCHANGED <<script, applied, events>>
  \/ \E u \in Callers :
       /\ calls < MaxHistoryCalls
       /\ handleWithdraw(u, AllArg)
       /\ UNCHANGED <<script, applied, events>>
  \/ \E u \in Callers :
       /\ calls < MaxHistoryCalls
       /\ handleLoan(u, IntArg(500))
       /\ UNCHANGED <<script, applied, events>>
  \/ \E u \in Callers :
       /\ calls < MaxHistoryCalls
       /\ handleRepay(u, AllArg)
       /\ UNCHANGED <<script, applied, events>>
  \/ \E u \in Callers, r \in Recipients :
       /\ calls < MaxHistoryCalls
       /\ sendExecute(u, r, IntArg(500))
       /\ UNCHANGED <<script, applied, events>>
  \/ \E u \in Callers :
       /\ calls < MaxHistoryCalls
       /\ dailyExecute(u)
       /\ UNCHANGED <<script, applied, events>>
  \/ \E u \in Callers :
       /\ calls < MaxHistoryCalls
       /\ workExecute(u, workMinReward)
       /\ UNCHANGED <<script, applied, events>>
  \/ \E u \in Callers, d \in HistoryDeltas :
       /\ calls < MaxHistoryCalls
       /\ adjustBalance(u, d)
       /\ UNCHANGED <<script, applied, events>>

HistorySpec == HistoryInit /\ [][HistoryNext]_vars

(***************************************************************************)
(* utils/userManager.js : the ledger file.  The engine functions are       *)
(* called as the command handlers call them (validated amounts, daily      *)
(* behind canCollectDaily, no transfer to oneself); fs.writeFileSync may   *)
(* throw at every write                                                    *)
(***************************************************************************)
MaxStoreCalls == 2     \* engine calls explored in the store specification

\* saveEconomy(data): the file holds data after a write that succeeded and
\* is left as it was after one that threw; the error is logged and false
\* is returned, which no caller reads
saveEconomy(file, data, ok) == IF ok THEN data ELSE file

\* the file after the writes of one call, made in order
RECURSIVE saveAll(_, _, _)
saveAll(file, writes, oks) ==
  IF writes = <<>> THEN file
  ELSE saveAll(saveEconomy(file, Head(writes), Head(oks)), Tail(writes),
               Tail(oks))

StoreOps == {"deposit", "withdraw", "loan", "repay", "adjust", "daily",
             "send"}
StoreAmounts == {500}
WriteOutcomes == {<<a, b, c>> : a \in BOOLEAN, b \in BOOLEAN, c \in BOOLEAN}

engineResult(eco, op, user, to, amount, t) ==
  CASE op = "deposit" -> bankDeposit(eco, user, amount, t)
    [] op = "withdraw" -> bankWithdraw(eco, user, amount, t)
    [] op = "loan" -> bankLoan(eco, user, amount, t)
    [] op = "repay" -> repayLoan(eco, user, amount, t)
    [] op = "adjust" -> updateBalance(eco, user, amount, t)
    [] op = "daily" -> IF canCollectDaily(eco, user, t)
                       THEN collectDaily(eco, user, t)
                       ELSE Fail(eco, user)
    [] op = "send" -> sendMoney(eco, user, to, amount, t)

\* the tables handed to saveEconomy during one call: by initializeUserEconomy
\* for a missing caller, by initializeUserEconomy for a missing receiver of
\* a transfer that passed the balance check, and by the function itself
\* when it succeeds
engineWrites(eco, op, user, to, r) ==
  LET eco1 == initializeUserEconomy(eco, user)
      eco2 == initializeUserEconomy(eco1, to)
  IN (IF eco1 # eco THEN <<eco1>> ELSE <<>>)
     \o (IF op = "send" /\ r.success /\ eco2 # eco1 THEN <<eco2>> ELSE <<>>)
     \o (IF r.success THEN <<r.eco>> ELSE <<>>)

StoreCall(op, user, to, amount, success, failed) ==
  [op |-> op, user |-> user, to |-> to, amount |-> amount,
   success |-> success, failedWrites |-> failed]

EngineCall(op, user, to, amount, oks) ==
  LET r == engineResult(economy, op, user, to, amount, now)
      writes == engineWrites(economy, op, user, to, r)
      failed == Cardinality({i \in 1..Len(writes) : ~oks[i]})
  IN /\ calls < MaxStoreCalls
     /\ op = "send" => toLowerCase(to) # toLowerCase(user)
     /\ economy' = r.eco
     /\ disk' = saveAll(disk, writes, oks)
     /\ lastCall' = StoreCall(op, user, IF op = "send" THEN to ELSE NoUser,
                              amount, r.success, failed)
     /\ calls' = calls + 1
     /\ UNCHANGED <<now, workCooldowns, regVars, dispVars, script, applied, events>>

StoreNext ==
  \E op \in StoreOps, u \in Callers, to \in Callers, a \in StoreAmounts,
     oks \in WriteOutcomes : EngineCall(op, u, to, a, oks)

StoreSpec == EconInit /\ [][StoreNext]_vars

(***************************************************************************)
(* utils/userManager.js : usernames in any letter case.  The engine        *)
(* functions receive the username as the platform delivered it             *)
(***************************************************************************)
MaxSpellingCalls == 2  \* engine calls explored with mixed-case usernames

Spellings == {<<"a">>, <<"A">>, <<"b">>, <<"B">>}
SpellingAmounts == {500, 1500}

SpelledCall(op, user, to, amount) ==
  LET r == engineResult(economy, op, user, to, amount, now)
  IN /\ calls < MaxSpellingCalls
     /\ op = "send" => toLowerCase(to) # toLowerCase(user)
     /\ economy' = r.eco
     /\ disk' = economy'
     /\ lastCall' = Call(op, user, IF op = "send" THEN to ELSE NoUser,
                         amount, r.success)
     /\ calls' = calls + 1
     /\ UNCHANGED <<now, workCooldowns, regVars, dispVars, script, applied, events>>

SpellingNext ==
  \E op \in StoreOps, u \in Spellings, to \in Spellings,
     a \in SpellingAmounts : SpelledCall(op, u, to, a)

SpellingSpec == EconInit /\ [][SpellingNext]_vars

(***************************************************************************)
(* handlers/commandHandler.js : the registry                               *)
(***************************************************************************)
MaxRegs == 3           \* command objects handed to the registry

Put(m, k, v) == [x \in DOMAIN m \cup {k} |-> IF x = k THEN v ELSE m[x]]

\* a command module as exported by a command file; name <<>> stands for a
\* missing name, hasExecute = FALSE for a missing execute function
Module(name, als, adminOnly, cooldown, hasExecute) ==
  [name |-> name, aliases |-> als, adminOnly |-> adminOnly,
   cooldown |-> cooldown, hasExecute |-> hasExecute]

\* the command object: the module and its identity
Object(module, id) ==
  [id |-> id, name |-> module.name, aliases |-> module.aliases,
   adminOnly |-> module.adminOnly, cooldown |-> module.cooldown,
   hasExecute |-> module.hasExecute]

NotFound == Object(Module(<<>>, {}, FALSE, 0, FALSE), 0)

\* as registerCommand, without indexing the aliases
registerCommandNoAliases(cmds, als, command) ==
  IF command.name = <<>> \/ ~command.hasExecute
  THEN [commands |-> cmds, aliases |-> als, ok |-> FALSE]
  ELSE [commands |-> Put(cmds, command.name, command),
        aliases |-> als,
        ok |-> TRUE]

registerCommand(cmds, als, command) ==
  IF command.name = <<>> \/ ~command.hasExecute
  THEN [commands |-> cmds, aliases |-> als, ok |-> FALSE]
  ELSE [commands |-> Put(cmds, command.name, command),
        aliases |-> [a \in DOMAIN als \cup command.aliases |->
                       IF a \in command.aliases THEN command.name
                       ELSE als[a]],
        ok |-> TRUE]

getCommand(cmds, als, name) ==
  IF name \in DOMAIN cmds THEN cmds[name]
  ELSE IF name \in DOMAIN als THEN cmds[als[name]]
  ELSE NotFound

\* the registrations of loadCommands after the two maps were cleared; files
\* is the sequence of command objects required from the directory
RECURSIVE loadFiles(_, _, _)
loadFiles(cmds, als, files) ==
  IF files = <<>> THEN [commands |-> cmds, aliases |-> als]
  ELSE LET r == registerCommand(cmds, als, Head(files))
       IN loadFiles(r.commands, r.aliases, Tail(files))

loadCommands(files) == loadFiles(Empty, Empty, files)

\* per alias, the object whose registration wrote it last
RECURSIVE Declarers(_, _)
Declarers(decl, files) ==
  IF files = <<>> THEN decl
  ELSE LET c == Head(files)
           ok == c.name # <<>> /\ c.hasExecute
       IN Declarers([a \in DOMAIN decl \cup (IF ok THEN c.aliases ELSE {})
                       |-> IF ok /\ a \in c.aliases THEN c.id ELSE decl[a]],
                    Tail(files))

RegCall(op, ok) ==
  [op |-> op, user |-> NoUser, to |-> NoUser, amount |-> 0, success |-> ok]

RegisterCommand(module) ==
  LET command == Object(module, regs + 1)
      r == registerCommand(commands, aliases, command)
  IN /\ regs < MaxRegs
     /\ commands' = r.commands
     /\ aliases' = r.aliases
     /\ regs' = regs + 1
     /\ declarer' = Declarers(declarer, <<command>>)
     /\ lastCall' = RegCall("register", r.ok)
     /\ UNCHANGED <<now, calls, econVars, dispVars, script, applied, events>>

LoadCommands(modules) ==
  LET files == [i \in 1..Len(modules) |-> Object(modules[i], regs + i)]
      r == loadCommands(files)
  IN /\ regs + Len(modules) <= MaxRegs
     /\ commands' = r.commands
     /\ aliases' = r.aliases
     /\ regs' = regs + Len(modules)
     /\ declarer' = Declarers(Empty, files)
     /\ lastCall' = RegCall("load", TRUE)
     /\ UNCHANGED <<now, calls, econVars, dispVars, script, applied, events>>

RegNames == {<<"x">>, <<"y">>, <<>>}
RegAliasSets == {{}, {<<"y">>}, {<<"z">>}, {<<"x">>, <<"z">>}}
RegModules ==
  {Module(n, a, FALSE, 0, e) :
     n \in RegNames, a \in RegAliasSets, e \in BOOLEAN}
RegFileLists ==
  {<<>>} \cup {<<m>> : m \in RegModules}
         \cup {<<m1, m2>> : m1 \in RegModules, m2 \in RegModules}

RegNext ==
  \/ \E m \in RegModules : RegisterCommand(m)
  \/ \E fs \in RegFileLists : LoadCommands(fs)

RegSpec == EconInit /\ [][RegNext]_vars

(***************************************************************************)
(* handlers/commandHandler.js : cooldown gate and dispatcher               *)
(***************************************************************************)
MaxDispatches == 2     \* execute calls explored in the dispatcher
MaxMsTicks == 3        \* clock steps explored in the dispatcher

\* Math.ceil(a / b) for a > 0
CeilDiv(a, b) == (a + b - 1) \div b

\* `${command.name}-${user}`
cooldownKey(command, user) == command.name \o <<"-">> \o user

\* as checkCooldown, treating the instant of expiry as still on cooldown
checkCooldownInclusive(cds, command, user, t) ==
  LET key == cooldownKey(command, user)
  IN IF command.cooldown = 0 THEN [success |-> TRUE, timeLeft |-> 0]
     ELSE IF key \in DOMAIN cds /\ t <= cds[key]
     THEN [success |-> FALSE, timeLeft |-> CeilDiv(cds[key] - t, 1000)]
     ELSE [success |-> TRUE, timeLeft |-> 0]

checkCooldown(cds, command, user, t) ==
  LET key == cooldownKey(command, user)
  IN IF command.cooldown = 0 THEN [success |-> TRUE, timeLeft |-> 0]
     ELSE IF key \in DOMAIN cds /\ t < cds[key]
     THEN [success |-> FALSE, timeLeft |-> CeilDiv(cds[key] - t, 1000)]
     ELSE [success |-> TRUE, timeLeft |-> 0]

\* the handler's promise settles in one of these ways
HandlerOutcomes ==
  {"success",          \* resolves with {success: true, ...}
   "failure",          \* resolves with {success: false, ...}
   "throws",           \* rejects
   "noSuccessField",   \* resolves with an object without a success field
   "primitive",        \* resolves with a string, a number or true
   "undefined"}        \* resolves with undefined or null

\* as commitsCooldown, ignoring the handler's result
commitsCooldownAlways(outcome, command) == command.cooldown > 0

\* result.success && command.cooldown
commitsCooldown(outcome, command) ==
  outcome = "success" /\ command.cooldown > 0

\* what execute returns once the handler's promise has settled: the
\* handler's own value, or the {success: false, message} of the catch block
executeResult(outcome) ==
  CASE outcome = "success" -> "success"
    [] outcome = "failure" -> "failure"
    [] outcome = "noSuccessField" -> "noSuccessField"
    [] outcome = "primitive" -> "primitive"   \* "done".success is undefined
    [] OTHER -> "error"     \* the catch block: a throw, or undefined.success

Count(m, k) == IF k \in DOMAIN m THEN m[k] ELSE 0

DispCall(op, name, user, outcome, timeLeft) ==
  [op |-> op, name |-> name, user |-> user, outcome |-> outcome,
   timeLeft |-> timeLeft]

\* as permissionDenied, letting every caller through
permissionDeniedNever(command, isAdmin) == FALSE

\* command.adminOnly && !isAdmin
permissionDenied(command, isAdmin) == command.adminOnly /\ ~isAdmin

\* as rejection, consulting the cooldown gate before the permission
rejectionCooldownFirst(command, isAdmin, cd) ==
  IF command = NotFound THEN "notFound"
  ELSE IF ~cd.success THEN "onCooldown"
  ELSE IF permissionDenied(command, isAdmin) THEN "denied"
  ELSE "none"

\* the early returns of execute, in the order of the code: command not
\* found, admin-only command and caller not admin, cooldown check failed
rejection(command, isAdmin, cd) ==
  IF command = NotFound THEN "notFound"
  ELSE IF permissionDenied(command, isAdmin) THEN "denied"
  ELSE IF ~cd.success THEN "onCooldown"
  ELSE "none"

\* execute up to its await: resolution, permission and cooldown checks,
\* usage tracking and the call of command.execute
ExecuteStart(name, user, isAdmin) ==
  LET command == getCommand(commands, aliases, name)
      cd == checkCooldown(cooldowns, command, user, now)
      rej == rejection(command, isAdmin, cd)
      u == toLowerCase(user)
      d == [id |-> calls + 1, name |-> name, command |-> command,
            user |-> user, start |-> now,
            seen |-> Count(commits, cooldownKey(command, user))]
  IN /\ calls < MaxDispatches
     /\ calls' = calls + 1
     /\ IF rej = "notFound"
        THEN /\ lastCall' = DispCall("execute", name, user, "notFound", 0)
             /\ UNCHANGED <<commandStats, users, economy, disk,
                            inflight>>
        ELSE IF rej = "denied"
        THEN /\ lastCall' = DispCall("execute", name, user, "denied", 0)
             /\ UNCHANGED <<commandStats, users, economy, disk,
                            inflight>>
        ELSE IF rej = "onCooldown"
        THEN /\ lastCall' = DispCall("execute", name, user, "onCooldown",
                                     cd.timeLeft)
             /\ UNCHANGED <<commandStats, users, economy, disk,
                            inflight>>
        ELSE /\ lastCall' = DispCall("execute", name, user, "started", 0)
             /\ commandStats' = Put(commandStats, name,
                                    Count(commandStats, name) + 1)
             \* incrementCommandUsage: getUser creates the user and its
             \* economy record on first sight
             /\ users' = Put(users, u, Count(users, u) + 1)
             /\ economy' = IF u \in DOMAIN users THEN economy
                           ELSE initializeUserEconomy(economy, u)
             /\ disk' = economy'
             /\ inflight' = inflight \cup {d}
     /\ UNCHANGED <<now, workCooldowns, regVars, cooldowns, timers, commits,
                    lastSuccEnd, minGap, script, applied, events>>

\* execute after its await: the handler's promise has settled
HandlerSettles(d, outcome) ==
  LET key == cooldownKey(d.command, d.user)
      cooldownTime == d.command.cooldown * 1000
      gap == d.start - lastSuccEnd[key]
  IN /\ d \in inflight
     /\ inflight' = inflight \ {d}
     /\ lastCall' = DispCall("settle", d.name, d.user,
                             executeResult(outcome), 0)
     /\ IF commitsCooldown(outcome, d.command)
        THEN \* applyCooldown
             /\ cooldowns' = Put(cooldowns, key, now + cooldownTime)
             /\ timers' = timers \cup
                  {[key |-> key, fireAt |-> now + cooldownTime,
                    id |-> Count(commits, key) + 1]}
             /\ commits' = Put(commits, key, Count(commits, key) + 1)
        ELSE UNCHANGED <<cooldowns, timers, commits>>
     /\ IF outcome = "success" /\ d.command.cooldown > 0
        THEN /\ lastSuccEnd' = Put(lastSuccEnd, key, now)
             /\ minGap' =
                  IF key \notin DOMAIN lastSuccEnd THEN minGap
                  ELSE Put(minGap, key,
                           IF key \in DOMAIN minGap
                           THEN Min(minGap[key], gap) ELSE gap)
        ELSE UNCHANGED <<lastSuccEnd, minGap>>
     /\ UNCHANGED <<now, calls, econVars, regVars, commandStats, users,
                    script, applied, events>>

\* the setTimeout callback of applyCooldown: it runs no earlier than its
\* delay and deletes whatever entry the key holds at that time
TimerFires(t) ==
  /\ t \in timers
  /\ now >= t.fireAt
  /\ timers' = timers \ {t}
  /\ cooldowns' = [k \in DOMAIN cooldowns \ {t.key} |-> cooldowns[k]]
  /\ UNCHANGED <<now, calls, lastCall, econVars, regVars, commandStats,
                 users, inflight, commits, lastSuccEnd, minGap, script, applied, events>>

\* the wall clock, in steps of two and a half seconds
MsTick == 2500
TickMs ==
  /\ now < MaxMsTicks * MsTick
  /\ now' = now + MsTick
  /\ UNCHANGED <<calls, lastCall, econVars, regVars, dispVars, script, applied, events>>

\* the commands the dispatcher starts with: template (part_008: public,
\* cooldown 5, aliases sample and example) and stop (admin only)
templateName == <<"t">>
sampleAlias == <<"s">>
exampleAlias == <<"e">>
stopName == <<"k">>
templateCooldown == 5
templateModule ==
  Module(templateName, {sampleAlias, exampleAlias}, FALSE, templateCooldown,
         TRUE)
stopModule == Module(stopName, {}, TRUE, 0, TRUE)
StartupFiles == <<Object(templateModule, 1), Object(stopModule, 2)>>

\* the dispatches explored: <<typed name, user, isAdmin>>
DispRequests ==
  {<<templateName, <<"a">>, FALSE>>, <<sampleAlias, <<"a">>, FALSE>>,
   <<templateName, <<"B">>, FALSE>>, <<stopName, <<"a">>, FALSE>>,
   <<stopName, <<"a">>, TRUE>>, <<<<"q">>, <<"a">>, FALSE>>}

DispInit ==
  /\ now = 0
  /\ economy = Empty
  /\ workCooldowns = Empty
  /\ lastCall = NoCall
  /\ calls = 0
  /\ commands = loadCommands(StartupFiles).commands
  /\ aliases = loadCommands(StartupFiles).aliases
  /\ regs = Len(StartupFiles)
  /\ declarer = Declarers(Empty, StartupFiles)
  /\ cooldowns = Empty
  /\ timers = {}
  /\ commandStats = Empty
  /\ users = Empty
  /\ inflight = {}
  /\ commits = Empty
  /\ lastSuccEnd = Empty
  /\ minGap = Empty
  /\ disk = Empty
  /\ script = Null
  /\ applied = <<>>
  /\ events = <<>>

DispNext ==
  \/ \E r \in DispRequests : ExecuteStart(r[1], r[2], r[3])
  \/ \E d \in inflight, o \in HandlerOutcomes : HandlerSettles(d, o)
  \/ \E t \in timers : TimerFires(t)
  \/ TickMs

DispSpec == DispInit /\ [][DispNext]_vars

(***************************************************************************)
(* handlers/commandHandler.js : the dispatcher with names that hold the    *)
(* separator of the cooldown key.  registerCommand accepts any non-empty   *)
(* name and execute any username                                           *)
(***************************************************************************)
shortName == <<"a">>
hyphenName == <<"a", "-", "b">>
shortModule == Module(shortName, {}, FALSE, templateCooldown, TRUE)
hyphenModule == Module(hyphenName, {}, FALSE, templateCooldown, TRUE)
KeyFiles == <<Object(shortModule, 1), Object(hyphenModule, 2)>>
KeyNames == {shortName, hyphenName}
KeyUsers == {<<"c">>, <<"b", "-", "c">>}

KeyInit ==
  /\ now = 0
  /\ economy = Empty
  /\ workCooldowns = Empty
  /\ lastCall = NoCall
  /\ calls = 0
  /\ commands = loadCommands(KeyFiles).commands
  /\ aliases = loadCommands(KeyFiles).aliases
  /\ regs = Len(KeyFiles)
  /\ declarer = Declarers(Empty, KeyFiles)
  /\ cooldowns = Empty
  /\ timers = {}
  /\ commandStats = Empty
  /\ users = Empty
  /\ inflight = {}
  /\ commits = Empty
  /\ lastSuccEnd = Empty
  /\ minGap = Empty
  /\ disk = Empty
  /\ script = Null
  /\ applied = <<>>
  /\ events = <<>>

KeyNext ==
  \/ \E n \in KeyNames, u \in KeyUsers : ExecuteStart(n, u, FALSE)
  \/ \E d \in inflight, o \in HandlerOutcomes : HandlerSettles(d, o)
  \/ \E t \in timers : TimerFires(t)
  \/ TickMs

KeySpec == KeyInit /\ [][KeyNext]_vars

(***************************************************************************)
(* handlers/commandHandler.js : the dispatcher with a command that is both *)
(* admin only and rate limited, as the command template lets an author     *)
(* declare                                                                 *)
(***************************************************************************)
guardedName == <<"g">>
guardedModule == Module(guardedName, {}, TRUE, templateCooldown, TRUE)
OrderFiles == <<Object(templateModule, 1), Object(guardedModule, 2)>>

\* the dispatches explored: <<typed name, user, isAdmin>>
OrderRequests ==
  {<<guardedName, <<"a">>, TRUE>>, <<guardedName, <<"a">>, FALSE>>,
   <<templateName, <<"a">>, FALSE>>, <<<<"q">>, <<"a">>, FALSE>>}

OrderInit ==
  /\ now = 0
  /\ economy = Empty
  /\ workCooldowns = Empty
  /\ lastCall = NoCall
  /\ calls = 0
  /\ commands = loadCommands(OrderFiles).commands
  /\ aliases = loadCommands(OrderFiles).aliases
  /\ regs = Len(OrderFiles)
  /\ declarer = Declarers(Empty, OrderFiles)
  /\ cooldowns = Empty
  /\ timers = {}
  /\ commandStats = Empty
  /\ users = Empty
  /\ inflight = {}
  /\ commits = Empty
  /\ lastSuccEnd = Empty
  /\ minGap = Empty
  /\ disk = Empty
  /\ script = Null
  /\ applied = <<>>
  /\ events = <<>>

OrderNext ==
  \/ \E r \in OrderRequests : ExecuteStart(r[1], r[2], r[3])
  \/ \E d \in inflight, o \in HandlerOutcomes : HandlerSettles(d, o)
  \/ \E t \in timers : TimerFires(t)
  \/ TickMs

OrderSpec == OrderInit /\ [][OrderNext]_vars

(***************************************************************************)
(* handlers/commandHandler.js with modules/commands/bank.js and send.js :  *)
(* economy commands under the dispatcher.  execute calls the handler and   *)
(* awaits its promise; another dispatch may start before the first one     *)
(* resumes                                                                 *)
(***************************************************************************)
MaxConcDispatches == 2 \* economy commands dispatched

bankName == <<"b", "a", "n", "k">>
sendName == <<"s", "e", "n", "d">>
bankModule == Module(bankName, {}, FALSE, 0, TRUE)
sendModule == Module(sendName, {}, FALSE, 0, TRUE)
ConcFiles == <<Object(bankModule, 1), Object(sendModule, 2)>>
ConcOps == {"deposit", "withdraw", "loan", "repay", "send"}
ConcAmounts == {500, 1000}

\* as awaitsBeforeSave, with a handler that yields between its funds check
\* and the assignment of the records it computed
awaitsBeforeSaveAlways(op) == TRUE

\* whether the handler of op yields to the event loop between reading the
\* ledger and storing its result: handleDeposit, handleWithdraw, handleLoan,
\* handleRepay and the send command hold no await, and the engine
\* functions they call are synchronous down to writeFileSync
awaitsBeforeSave(op) == FALSE

\* the records of keys taken from new, the others from cur
Overwrite(cur, new, keys) ==
  [k \in DOMAIN cur \cup (keys \cap DOMAIN new) |->
     IF k \in keys \cap DOMAIN new THEN new[k] ELSE cur[k]]

Touched(op, user, to) ==
  {toLowerCase(user)} \cup (IF op = "send" THEN {toLowerCase(to)} ELSE {})

\* execute up to its await for a bank or send command: the checks, usage
\* tracking, and the handler, which runs until it returns its promise
ExecuteEconomy(op, user, to, amount) ==
  LET name == IF op = "send" THEN sendName ELSE bankName
      command == getCommand(commands, aliases, name)
      u == toLowerCase(user)
      eco1 == IF u \in DOMAIN users THEN economy
              ELSE initializeUserEconomy(economy, u)
      r == engineResult(eco1, op, user, to, amount, now)
      saved == ~awaitsBeforeSave(op)
      d == [id |-> calls + 1, op |-> op, name |-> name, user |-> user,
            to |-> to, result |-> r, saved |-> saved]
  IN /\ calls < MaxConcDispatches
     /\ op = "send" => ~SelfTransfer(user, to)
     /\ command # NotFound
     /\ ~permissionDenied(command, FALSE)
     /\ checkCooldown(cooldowns, command, user, now).success
     /\ calls' = calls + 1
     /\ lastCall' = DispCall("execute", name, user, "started", 0)
     /\ commandStats' = Put(commandStats, name,
                            Count(commandStats, name) + 1)
     /\ users' = Put(users, u, Count(users, u) + 1)
     /\ economy' = IF saved THEN r.eco ELSE eco1
     /\ disk' = economy'
     /\ inflight' = inflight \cup {d}
     /\ applied' = Append(applied,
                          [op |-> op, user |-> user, to |-> to,
                           amount |-> amount, success |-> r.success,
                           t |-> now, concurrent |-> Cardinality(inflight)])
     /\ UNCHANGED <<now, workCooldowns, regVars, cooldowns, timers, commits,
                    lastSuccEnd, minGap, script, events>>

\* execute after its await for a bank or send command: neither has a
\* cooldown, the handler's result is returned
EconomySettles(d) ==
  /\ d \in inflight
  /\ inflight' = inflight \ {d}
  /\ lastCall' = DispCall("settle", d.name, d.user,
                          executeResult(IF d.result.success THEN "success"
                                        ELSE "failure"), 0)
  /\ economy' = IF d.saved THEN economy
                ELSE Overwrite(economy, d.result.eco,
                               Touched(d.op, d.user, d.to))
  /\ disk' = economy'
  /\ UNCHANGED <<now, calls, workCooldowns, regVars, cooldowns, timers,
                 commandStats, users, commits, lastSuccEnd, minGap, script,
                 applied, events>>

ConcInit ==
  /\ now = 0
  /\ economy = Empty
  /\ workCooldowns = Empty
  /\ lastCall = NoCall
  /\ calls = 0
  /\ commands = loadCommands(ConcFiles).commands
  /\ aliases = loadCommands(ConcFiles).aliases
  /\ regs = Len(ConcFiles)
  /\ declarer = Declarers(Empty, ConcFiles)
  /\ cooldowns = Empty
  /\ timers = {}
  /\ commandStats = Empty
  /\ users = Empty
  /\ inflight = {}
  /\ commits = Empty
  /\ lastSuccEnd = Empty
  /\ minGap = Empty
  /\ disk = Empty
  /\ script = Null
  /\ applied = <<>>
  /\ events = <<>>

ConcNext ==
  \/ \E op \in ConcOps \ {"send"}, u \in Callers, a \in ConcAmounts :
       ExecuteEconomy(op, u, NoUser, a)
  \/ \E u \in Callers, to \in Callers, a \in ConcAmounts :
       ExecuteEconomy("send", u, to, a)
  \/ \E d \in inflight : EconomySettles(d)

ConcSpec == ConcInit /\ [][ConcNext]_vars

(***************************************************************************)
(* handlers/commandHandler.js parseCommand and utils/helpers.js            *)
(* parseArguments : from a line of text to a command name and arguments    *)
(***************************************************************************)
MaxLineLen == 5        \* characters in a line handed to the parser

\* the configured prefix (config.bot.prefix)
prefix == <<"!">>

\* the characters lines are made of: the prefix character, a space, a tab,
\* the double quote, the backslash, a lower-case and an upper-case letter
LineChars == {"!", " ", "\t", "\"", "\\", "a", "B"}
Lines == UNION {[1..n -> LineChars] : n \in 0..MaxLineLen}

\* String.prototype.trim removes white space at both ends
isSpace(c) == c \in {" ", "\t"}

trim(s) ==
  LET RECURSIVE trimStart(_)
      trimStart(x) ==
        IF x # <<>> /\ isSpace(Head(x)) THEN trimStart(Tail(x)) ELSE x
      RECURSIVE trimEnd(_)
      trimEnd(x) ==
        IF x # <<>> /\ isSpace(x[Len(x)])
        THEN trimEnd(SubSeq(x, 1, Len(x) - 1)) ELSE x
  IN trimEnd(trimStart(s))

startsWith(s, p) == Len(s) >= Len(p) /\ SubSeq(s, 1, Len(p)) = p

\* as parseArguments, without the backslash escape
parseArgumentsNoEscape(input) ==
  LET RECURSIVE scan(_, _, _, _)
      scan(inp, args, current, inQuotes) ==
        IF inp = <<>>
        THEN IF current # <<>> THEN Append(args, current) ELSE args
        ELSE IF Head(inp) = "\""
        THEN scan(Tail(inp), args, current, ~inQuotes)
        ELSE IF Head(inp) = " " /\ ~inQuotes
        THEN scan(Tail(inp),
                  IF current # <<>> THEN Append(args, current) ELSE args,
                  <<>>, inQuotes)
        ELSE scan(Tail(inp), args, Append(current, Head(inp)), inQuotes)
  IN scan(input, <<>>, <<>>, FALSE)

\* parseArguments: the loop over the characters of input, then the push of
\* a last token that is not empty
parseArguments(input) ==
  LET RECURSIVE scan(_, _, _, _, _)
      scan(inp, args, current, inQuotes, escapeNext) ==
        IF inp = <<>>
        THEN IF current # <<>> THEN Append(args, current) ELSE args
        ELSE LET char == Head(inp)
                 rest == Tail(inp)
             IN IF escapeNext
                THEN scan(rest, args, Append(current, char), inQuotes, FALSE)
                ELSE IF char = "\\"
                THEN scan(rest, args, current, inQuotes, TRUE)
                ELSE IF char = "\""
                THEN scan(rest, args, current, ~inQuotes, FALSE)
                ELSE IF char = " " /\ ~inQuotes
                THEN scan(rest,
                          IF current # <<>> THEN Append(args, current)
                          ELSE args,
                          <<>>, inQuotes, FALSE)
                ELSE scan(rest, args, Append(current, char), inQuotes,
                          FALSE)
  IN scan(input, <<>>, <<>>, FALSE, FALSE)

NotACommand == [kind |-> "null", name |-> <<>>, params |-> <<>>]

\* as parseCommand, slicing the prefix off without looking at it
parseCommandNoPrefixCheck(message, prefixed) ==
  LET commandString == IF prefixed
                       THEN SubSeq(message, Len(prefix) + 1, Len(message))
                       ELSE message
      args == parseArguments(trim(commandString))
  IN IF message = <<>> THEN NotACommand
     ELSE IF trim(commandString) = <<>> THEN NotACommand
     ELSE IF args = <<>> THEN NotACommand
     ELSE [kind |-> "invocation", name |-> toLowerCase(Head(args)),
           params |-> Tail(args)]

\* parseCommand: null for a line that is not a command, else name and
\* params; an exception inside is caught and answered with null as well
parseCommand(message, prefixed) ==
  LET commandString == IF prefixed
                       THEN SubSeq(message, Len(prefix) + 1, Len(message))
                       ELSE message
      args == parseArguments(trim(commandString))
  IN IF message = <<>> THEN NotACommand
     ELSE IF prefixed /\ ~startsWith(message, prefix) THEN NotACommand
     ELSE IF trim(commandString) = <<>> THEN NotACommand
     ELSE IF args = <<>> THEN NotACommand
     ELSE [kind |-> "invocation", name |-> toLowerCase(Head(args)),
           params |-> Tail(args)]

ParseCall(op, message, prefixed, result) ==
  [op |-> op, message |-> message, prefixed |-> prefixed, result |-> result]

\* a line has arrived and is about to be parsed, with or without the prefix
ParseInit ==
  /\ now = 0
  /\ economy = Empty
  /\ workCooldowns = Empty
  /\ \E m \in Lines, p \in BOOLEAN :
       lastCall = ParseCall("line", m, p, NotACommand)
  /\ calls = 0
  /\ commands = Empty
  /\ aliases = Empty
  /\ cooldowns = Empty
  /\ timers = {}
  /\ commandStats = Empty
  /\ users = Empty
  /\ inflight = {}
  /\ regs = 0
  /\ declarer = Empty
  /\ commits = Empty
  /\ lastSuccEnd = Empty
  /\ minGap = Empty
  /\ disk = Empty
  /\ script = Null
  /\ applied = <<>>
  /\ events = <<>>

ParseCommand ==
  /\ lastCall.op = "line"
  /\ calls' = calls + 1
  /\ lastCall' = ParseCall("parse", lastCall.message, lastCall.prefixed,
                           parseCommand(lastCall.message, lastCall.prefixed))
  /\ UNCHANGED <<now, econVars, regVars, dispVars, script, applied, events>>

\* parseArguments called on the line as it is
ParseArguments ==
  /\ lastCall.op = "line"
  /\ calls' = calls + 1
  /\ lastCall' = ParseCall("tokens", lastCall.message, lastCall.prefixed,
                           [kind |-> "tokens", name |-> <<>>,
                            params |-> parseArguments(lastCall.message)])
  /\ UNCHANGED <<now, econVars, regVars, dispVars, script, applied, events>>

ParseNext ==
  \/ ParseCommand
  \/ ParseArguments

ParseSpec == ParseInit /\ [][ParseNext]_vars

(***************************************************************************)
(* handlers/eventHandler.js : the event log                                *)
(***************************************************************************)
MaxEventCalls == 2     \* addEvent calls explored
MaxEventMs == 2        \* milliseconds that pass while the log is used

maxEvents == 500

\* the type of the events recorded and asked for while the log is used;
\* NoType is the null default of getEvents
EventTypes == {"login"}
NoType == ""
Limits == {10}

\* an event record; id stands for generateId() and numbers the events in
\* the order they were added, timestamp is the millisecond of the addition
Event(id, timestamp, type) ==
  [id |-> id, timestamp |-> timestamp, type |-> type]

\* data/events.json of a bot that has been running: maxEvents events,
\* added one millisecond apart
LoadedEvents == [i \in 1..maxEvents |-> Event(i, i, "command")]

\* Array.prototype.sort with the comparator of getEvents: newest timestamp
\* first, events of one millisecond left in the order they had (the sort is
\* stable); latest is a millisecond no timestamp of evs exceeds
sortNewestFirst(evs, latest) ==
  LET RECURSIVE between(_, _)
      between(lo, hi) ==
        IF lo = hi THEN SelectSeq(evs, LAMBDA e : e.timestamp = lo)
        ELSE LET mid == (lo + hi) \div 2
             IN between(mid + 1, hi) \o between(lo, mid)
  IN between(0, latest)

\* Array.prototype.slice(offset, offset + limit)
slice(evs, first, end) ==
  SubSeq(evs, first + 1, IF end < Len(evs) THEN end ELSE Len(evs))

EventCall(op, type, result) == [op |-> op, type |-> type, result |-> result]

\* addEvent: push, then keep the last maxEvents elements of the array; the
\* array is then written to data/events.json, which is read back only by
\* the constructor
addEvent(type) ==
  LET event == Event(Len(LoadedEvents) + calls + 1, now, type)
      pushed == Append(events, event)
  IN /\ calls' = calls + 1
     /\ events' = IF Len(pushed) > maxEvents
                  THEN SubSeq(pushed, Len(pushed) - maxEvents + 1,
                              Len(pushed))
                  ELSE pushed
     /\ lastCall' = EventCall("addEvent", type, <<event>>)
     /\ UNCHANGED <<now, econVars, regVars, dispVars, script, applied>>

\* getEvents: with a type the events are filtered into a new array, without
\* one filteredEvents is this.events itself; sort works in place on it
getEvents(limit, offset, type) ==
  LET filteredEvents == IF type # NoType
                        THEN SelectSeq(events, LAMBDA e : e.type = type)
                        ELSE events
      sorted == sortNewestFirst(filteredEvents, now)
  IN /\ events' = IF type # NoType THEN events ELSE sorted
     /\ lastCall' = EventCall("getEvents", type,
                              slice(sorted, offset, offset + limit))
     /\ UNCHANGED <<now, calls, econVars, regVars, dispVars, script,
                    applied>>

\* a millisecond passes
EventClock ==
  /\ now < maxEvents + MaxEventMs
  /\ now' = now + 1
  /\ UNCHANGED <<calls, lastCall, econVars, regVars, dispVars, script,
                 applied, events>>

EventInit ==
  /\ now = maxEvents
  /\ economy = Empty
  /\ workCooldowns = Empty
  /\ lastCall = NoCall
  /\ calls = 0
  /\ commands = Empty
  /\ aliases = Empty
  /\ cooldowns = Empty
  /\ timers = {}
  /\ commandStats = Empty
  /\ users = Empty
  /\ inflight = {}
  /\ regs = 0
  /\ declarer = Empty
  /\ commits = Empty
  /\ lastSuccEnd = Empty
  /\ minGap = Empty
  /\ disk = Empty
  /\ script = Null
  /\ applied = <<>>
  /\ events = LoadedEvents

EventNext ==
  \/ \E t \in EventTypes : calls < MaxEventCalls /\ addEvent(t)
  \/ \E l \in Limits, t \in EventTypes \cup {NoType} : getEvents(l, 0, t)
  \/ EventClock

EventSpec == EventInit /\ [][EventNext]_vars

(***************************************************************************)
(* Properties of the economy engine                                        *)
(***************************************************************************)
\* the record an operation on u works on: the stored one, or the starting
\* record that the first access creates
Rec(eco, u) == getUserEconomy(eco, u)

NewCall(op) == calls' = calls + 1 /\ lastCall'.op = op

C2_NeverNegative ==
  \A u \in DOMAIN economy :
    /\ economy[u].balance >= 0
    /\ economy[u].bank >= 0
    /\ economy[u].loan >= 0

\* a penalty larger than the wallet was applied and floored at zero
C2_Witness ==
  /\ lastCall.op = "adjust"
  /\ lastCall.amount < 0
  /\ Rec(economy, lastCall.user).balance = 0

\* C3: a successful deposit moves exactly amt from the wallet to the bank, a
\* successful withdrawal exactly amt from the bank to the wallet; either
\* leaves balance + bank and the loan of the user unchanged.
C3_DepositWithdrawZeroSum ==
  [][((NewCall("deposit") \/ NewCall("withdraw")) /\ lastCall'.success) =>
       LET u == toLowerCase(lastCall'.user)
           amt == lastCall'.amount
           old == Rec(economy, u)
           new == Rec(economy', u)
           d == IF lastCall'.op = "deposit" THEN amt ELSE 0 - amt
       IN /\ amt > 0
          /\ new.balance = old.balance - d
          /\ new.bank = old.bank + d
          /\ new.balance + new.bank = old.balance + old.bank
          /\ new.loan = old.loan]_vars

C3_Witness ==
  /\ lastCall.op = "withdraw"
  /\ lastCall.success
  /\ lastCall.amount = 500
  /\ Rec(economy, lastCall.user).bank = 0

\* C4: a loan requested while the user's loan is positive is refused and
\* the user's record (balance, bank, loan, loanDue, transactions) stays as
\* it was.
C4_SingleOutstandingLoan ==
  [][(NewCall("loan") /\ Rec(economy, lastCall'.user).loan > 0) =>
       LET u == toLowerCase(lastCall'.user)
       IN /\ ~lastCall'.success
          /\ u \in DOMAIN economy
          /\ economy'[u] = economy[u]]_vars

C4_Witness ==
  /\ lastCall.op = "loan"
  /\ ~lastCall.success
  /\ lastCall.amount = 500
  /\ Rec(economy, lastCall.user).loan = 1500

\* C5: for a user without a loan, a loan of 0 < amt <= maxLoanAmount is
\* granted: afterwards loan = amt, the wallet has grown by exactly amt, the
\* bank is unchanged and loanDue = now + loanDuration.
C5_LoanIssued ==
  [][(/\ NewCall("loan")
      /\ Rec(economy, lastCall'.user).loan = 0
      /\ lastCall'.amount > 0
      /\ lastCall'.amount <= maxLoanAmount) =>
       LET u == toLowerCase(lastCall'.user)
           amt == lastCall'.amount
           old == Rec(economy, u)
           new == Rec(economy', u)
       IN /\ lastCall'.success
          /\ new.loan = amt
          /\ new.balance = old.balance + amt
          /\ new.bank = old.bank
          /\ new.loanDue = now + loanDuration]_vars

C5_Witness ==
  /\ lastCall.op = "loan"
  /\ lastCall.success
  /\ Rec(economy, lastCall.user).loan = 1500
  /\ Rec(economy, lastCall.user).balance = StartingBalance + 1500

\* C6: a successful repayment lowers loan and wallet by exactly
\* min(amt, loan before), never takes the loan below 0, and loanDue is null
\* afterwards exactly when the loan has reached 0.
C6_RepayCapped ==
  [][(NewCall("repay") /\ lastCall'.success) =>
       LET u == toLowerCase(lastCall'.user)
           old == Rec(economy, u)
           new == Rec(economy', u)
           paid == Min(lastCall'.amount, old.loan)
       IN /\ new.loan = old.loan - paid
          /\ new.balance = old.balance - paid
          /\ new.loan >= 0
          /\ (new.loanDue = Null) <=> (new.loan = 0)]_vars

\* a repayment of 1500 against a loan of 500
C6_Witness ==
  /\ lastCall.op = "repay"
  /\ lastCall.success
  /\ lastCall.amount = 1500
  /\ LET e == Rec(economy, lastCall.user)
     IN /\ e.loan = 0
        /\ e.loanDue = Null
        /\ e.transactions[Len(e.transactions)].amount = 500

\* C11: every successful daily collection sets the streak to 1 when the
\* user has never collected or more than twice the daily interval (48 h)
\* has passed since lastDaily, and to the old streak + 1 otherwise; it
\* credits the wallet by the daily reward and sets lastDaily to now.
C11_DailyStreak ==
  [][(NewCall("daily") /\ lastCall'.success) =>
       LET u == toLowerCase(lastCall'.user)
           old == Rec(economy, u)
           new == Rec(economy', u)
           reset == \/ old.lastDaily = Null
                    \/ now - old.lastDaily > 2 * DAILY_REWARD_cooldown
       IN /\ new.dailyStreak = IF reset THEN 1 ELSE old.dailyStreak + 1
          /\ new.balance = old.balance + DAILY_REWARD_amount
          /\ new.lastDaily = now]_vars

\* a second collection three days after the first one: the streak is 1 again
C11_Witness ==
  /\ lastCall.op = "daily"
  /\ lastCall.success
  /\ now = 3 * Day
  /\ LET e == Rec(economy, lastCall.user)
     IN /\ e.dailyStreak = 1
        /\ Len(e.transactions) = 2
        /\ e.transactions[1].type = "daily"
        /\ e.transactions[1].timestamp = 0

\* C12: a daily collection attempted less than one daily interval (24 h)
\* after lastDaily fails and leaves the user's record (balance, dailyStreak,
\* lastDaily, transactions) as it was.
C12_DailyOnCooldown ==
  [][(/\ NewCall("daily")
      /\ Rec(economy, lastCall'.user).lastDaily # Null
      /\ now - Rec(economy, lastCall'.user).lastDaily
           < DAILY_REWARD_cooldown) =>
       LET u == toLowerCase(lastCall'.user)
       IN /\ ~lastCall'.success
          /\ u \in DOMAIN economy
          /\ economy'[u] = economy[u]]_vars

\* a second attempt in the instant of the first collection
C12_Witness ==
  /\ lastCall.op = "daily"
  /\ ~lastCall.success
  /\ calls = 2
  /\ now = 0
  /\ LET e == Rec(economy, lastCall.user)
     IN /\ e.lastDaily = now
        /\ e.dailyStreak = 1
        /\ Len(e.transactions) = 1

\* C13: from an empty ledger (starting balance 1000) the commands daily,
\* bank deposit 1000, bank loan 2000, send bob 100, bank repay 2000 issued by
\* alice in this order all succeed; after them alice has in turn wallet 1500
\* and streak 1, wallet 500 and bank 1000, wallet 2500 and loan 2000, wallet
\* 2400 with bob's wallet at 1100, and at the end wallet 400, bank 1000 and
\* loan 0.
C13_EndToEndScenario ==
  LET a == Rec(economy, alice)
      b == Rec(economy, bob)
  IN /\ script = 0 => a.balance = 1000 /\ economy = Empty
     /\ script \in 1..Len(Scenario) =>
          lastCall.success /\ lastCall.op = Scenario[script].op
     /\ script = 1 => a.balance = 1500 /\ a.dailyStreak = 1
     /\ script = 2 => a.balance = 500 /\ a.bank = 1000
     /\ script = 3 => a.balance = 2500 /\ a.loan = 2000
     /\ script = 4 => a.balance = 2400 /\ b.balance = 1100
     /\ script = 5 => a.balance = 400 /\ a.bank = 1000 /\ a.loan = 0

\* the fifth step of the scenario has been made
C13_Witness ==
  /\ script = 5
  /\ calls = 5
  /\ lastCall.op = "repay"
  /\ Rec(economy, alice).loanDue = Null
  /\ Len(Rec(economy, alice).transactions) = 5

\* amounts that are not a number, zero or negative
InvalidArgs == {NaNArg, IntArg(0), IntArg(0 - 500)}

\* C16: a deposit, withdrawal, loan, repayment or transfer requested with an
\* amount that is zero, negative or not a number fails before any mutation:
\* the ledger and its file are the same after the call as before.  The
\* keyword all that resolves to zero (empty bank, no loan or empty wallet)
\* fails likewise, the only change being the record that reading the
\* user's balance creates.
C16_InvalidAmountRejected ==
  [][(calls' = calls + 1 /\ lastCall'.op \in
        {"deposit", "withdraw", "loan", "repay", "send"}) =>
       LET u == lastCall'.user
           op == lastCall'.op
       IN /\ \A a \in InvalidArgs :
               (\/ op = "deposit" /\ handleDeposit(u, a)
                \/ op = "withdraw" /\ handleWithdraw(u, a)
                \/ op = "loan" /\ handleLoan(u, a)
                \/ op = "repay" /\ handleRepay(u, a)
                \/ op = "send" /\ \E r \in Recipients :
                                    sendExecute(u, r, a)) =>
                 /\ ~lastCall'.success
                 /\ economy' = economy
                 /\ disk' = disk
          /\ (\/ /\ op = "withdraw"
                 /\ Rec(economy, u).bank = 0
                 /\ handleWithdraw(u, AllArg)
              \/ /\ op = "repay"
                 /\ Min(Rec(economy, u).loan, Rec(economy, u).balance) = 0
                 /\ handleRepay(u, AllArg)) =>
                 /\ ~lastCall'.success
                 /\ \A v \in DOMAIN economy' :
                      economy'[v] = Rec(economy, v)]_vars

\* a loan of a non-positive or non-numeric amount was refused after an
\* earlier call had filled the ledger
C16_Witness ==
  /\ lastCall.op = "loan"
  /\ ~lastCall.success
  /\ lastCall.amount = 0
  /\ calls = 2
  /\ economy # Empty

\* C17: whatever economy command runs, afterwards every user's transactions
\* list holds at most TransactionLimit (50) records, and it consists of the
\* most recent records in the order they were appended: the old list
\* followed by the records of this call, cut to its last 50.
C17_HistoryCapped ==
  [][\A u \in DOMAIN economy' :
       LET old == Rec(economy, u).transactions
           new == economy'[u].transactions
       IN /\ Len(new) <= TransactionLimit
          /\ \E k \in 0..2 :
               /\ k <= Len(new)
               /\ new = SliceLast(old \o SubSeq(new, Len(new) - k + 1,
                                                Len(new)),
                                  TransactionLimit)]_vars

\* the history of user v in ledger eco, empty while v has no record
Txs(eco, v) == IF v \in DOMAIN eco THEN eco[v].transactions ELSE <<>>

\* new is old followed by exactly k further records, possibly cut to the
\* last TransactionLimit records after an append
Appended(old, new, k) ==
  \/ /\ Len(new) = Len(old) + k
     /\ \A i \in 1..Len(old) : new[i] = old[i]
  \/ /\ k > 0
     /\ k <= Len(new)
     /\ new = SliceLast(old \o SubSeq(new, Len(new) - k + 1, Len(new)),
                        TransactionLimit)

\* C18: a successful daily collection, balance adjustment (direct, work
\* reward, game payout), deposit, withdrawal, loan or repayment appends
\* exactly one transaction record to the acting user's history and none to
\* any other; a successful transfer appends exactly one record to the
\* sender's and exactly one to the recipient's; a failed call appends none.
C18_OneRecordPerOperation ==
  [][(calls' = calls + 1 /\ lastCall'.op \in
        {"daily", "adjust", "work", "game", "deposit", "withdraw", "loan",
         "repay", "send"}) =>
       LET u == toLowerCase(lastCall'.user)
           r == toLowerCase(lastCall'.to)
           mutating == /\ lastCall'.success
                       /\ lastCall'.op = "game" => lastCall'.amount # 0
           grown == IF ~mutating THEN {}
                    ELSE IF lastCall'.op = "send" THEN {u, r} ELSE {u}
       IN /\ mutating /\ lastCall'.op = "send" => u # r
          /\ \A v \in DOMAIN economy' \cup grown :
               Appended(Txs(economy, v), Txs(economy', v),
                        IF v \in grown THEN 1 ELSE 0)]_vars

\* a transfer has left one record with the sender and one with the recipient
C18_Witness ==
  /\ lastCall.op = "send"
  /\ lastCall.success
  /\ calls = 1
  /\ Rec(economy, lastCall.user).transactions
       = <<Tx("send", lastCall.amount, now)>>
  /\ Rec(economy, lastCall.to).transactions
       = <<Tx("receive", lastCall.amount, now)>>

\* C19: the ledger is written through: between engine calls the table in
\* the ledger file equals the table in memory.
C19_WriteThrough == disk = economy

\* C20: a call during which a write of the ledger file failed returns a
\* failure and leaves the ledger in memory equal to the file, which is as
\* it was before the call; and no call returns success while the ledger in
\* memory differs from the file.
C20_PersistenceFailureRollsBack ==
  [][(calls' = calls + 1 /\ lastCall'.op \in StoreOps) =>
       /\ lastCall'.failedWrites > 0 =>
            /\ ~lastCall'.success
            /\ disk' = disk
            /\ economy' = disk'
       /\ lastCall'.success => economy' = disk']_vars

(***************************************************************************)
(* Properties of the registry                                              *)
(***************************************************************************)
Registered == {commands[n] : n \in DOMAIN commands}
LookupKeys == {<<"x">>, <<"y">>, <<"z">>, <<"w">>, <<>>}

Settled == lastCall'.op = "settle" /\ inflight' # inflight

\* C7: for a command with a cooldown of N seconds whose handler succeeds,
\* the first dispatch by a user starts and its success commits the cooldown
\* (expiry = now + N seconds); a dispatch by that user less than N seconds
\* after that commit is refused as on cooldown with 1..N seconds remaining;
\* a dispatch at or after N seconds from the last commit starts again.
C7_CooldownGate ==
  [][/\ (/\ NewCall("execute")
         /\ getCommand(commands, aliases, lastCall'.name).cooldown > 0
         /\ lastCall'.outcome \notin {"notFound", "denied"}) =>
          LET c == getCommand(commands, aliases, lastCall'.name)
              key == cooldownKey(c, lastCall'.user)
              N == c.cooldown
              committed == Count(commits, key)
          IN /\ committed = 0 => lastCall'.outcome = "started"
             /\ (committed >= 1 /\ now >= lastSuccEnd[key] + N * 1000)
                  => lastCall'.outcome = "started"
             /\ (committed = 1 /\ now < lastSuccEnd[key] + N * 1000)
                  => lastCall'.outcome = "onCooldown"
             /\ lastCall'.outcome = "onCooldown"
                  => lastCall'.timeLeft \in 1..N
     /\ (Settled /\ lastCall'.outcome = "success") =>
          \A d \in inflight \ inflight' :
            d.command.cooldown > 0 =>
              LET key == cooldownKey(d.command, d.user)
              IN /\ key \in DOMAIN cooldowns'
                 /\ cooldowns'[key] = now + d.command.cooldown * 1000
                 /\ Count(commits', key) = Count(commits, key) + 1]_vars

\* two and a half seconds after the only commit the gate reports 3 seconds
C7_Witness ==
  /\ lastCall.op = "execute"
  /\ lastCall.outcome = "onCooldown"
  /\ lastCall.timeLeft = 3
  /\ Count(commits, cooldownKey(templateModule, lastCall.user)) = 1

\* C8: when the handler returns {success: false} or throws, the cooldown
\* map and its timers are left as they were, and unless another dispatch
\* committed a cooldown for the same command and user in the meantime, a
\* dispatch that follows immediately is not refused as on cooldown.
C8_FailureKeepsCooldown ==
  [][(Settled /\ lastCall'.outcome \in {"failure", "error"}) =>
       /\ cooldowns' = cooldowns
       /\ timers' = timers
       /\ commits' = commits
       /\ \A d \in inflight \ inflight' :
            Count(commits, cooldownKey(d.command, d.user)) = d.seen =>
              checkCooldown(cooldowns', d.command, d.user, now).success]_vars

C8_Witness ==
  /\ lastCall.op = "settle"
  /\ lastCall.outcome = "failure"
  /\ lastCall.name = templateName
  /\ cooldownKey(templateModule, lastCall.user) \notin DOMAIN cooldowns
  /\ commits = Empty

C14_ExecuteReturnsStructuredResult ==
  /\ lastCall.op = "execute" =>
       lastCall.outcome \in {"notFound", "denied", "onCooldown", "started"}
  /\ lastCall.op = "settle" =>
       lastCall.outcome \in {"success", "failure", "noSuccessField", "error"}

\* C9: between the end of one successful execution of a command with a
\* cooldown of N seconds by a user and the start of that user's next
\* successful execution of it at least N seconds elapse, also when several
\* dispatches are in flight at once.
C9_MinimumGapBetweenSuccesses ==
  \A k \in DOMAIN minGap : minGap[k] >= templateCooldown * 1000

(***************************************************************************)
(* Transfers to oneself                                                    *)
(***************************************************************************)
\* C21: a send whose recipient is the sender's own username up to letter
\* case (and a leading @) fails, and the ledger is the same before and
\* after: no balance and no transaction list changes.
C21_SelfTransferRejected ==
  [][\A u \in Callers, r \in Recipients, a \in AmountArgs :
       (/\ calls' = calls + 1
        /\ lastCall'.op = "send"
        /\ lastCall'.user = u
        /\ toLowerCase(StripAt(r)) = toLowerCase(u)
        /\ sendExecute(u, r, a))
       => (/\ ~lastCall'.success
           /\ economy' = economy)]_vars

\* a sender who holds enough coins names themself in another letter case
C21_Witness ==
  /\ lastCall.op = "send"
  /\ lastCall.to # lastCall.user
  /\ toLowerCase(lastCall.to) = toLowerCase(lastCall.user)
  /\ lastCall.amount = 500
  /\ toLowerCase(lastCall.user) \in DOMAIN economy
  /\ economy[toLowerCase(lastCall.user)].balance >= 500
  /\ ~lastCall.success

(***************************************************************************)
(* Operations refused for lack of funds                                    *)
(***************************************************************************)
\* the request just answered asked for more than the account it draws on
\* held: a deposit or a transfer above the wallet, a withdrawal above the
\* bank balance, a repayment of an outstanding loan above the wallet
LacksFunds ==
  LET c == lastCall'
      e == Rec(economy, c.user)
  IN /\ c.amount > 0
     /\ \/ c.op = "deposit" /\ c.amount > e.balance
        \/ c.op = "withdraw" /\ c.amount > e.bank
        \/ c.op = "send" /\ ~SelfTransfer(c.user, c.to)
                         /\ c.amount > e.balance
        \/ c.op = "repay" /\ e.loan > 0 /\ c.amount > e.balance

\* C22: a deposit, withdrawal, transfer or repayment that is refused for
\* lack of funds fails and applies nothing: every record that existed
\* before the call is the same after it (balance, bank, loan, loanDue,
\* transactions).
C22_RefusedForFundsAppliesNothing ==
  [][(calls' = calls + 1 /\ LacksFunds)
       => (/\ ~lastCall'.success
           /\ \A k \in DOMAIN economy :
                 k \in DOMAIN economy' /\ economy'[k] = economy[k])]_vars

\* a borrower who holds a record with a transaction history is refused a
\* repayment larger than the wallet
C22_Witness ==
  /\ lastCall.op = "repay"
  /\ ~lastCall.success
  /\ toLowerCase(lastCall.user) \in DOMAIN economy
  /\ LET e == economy[toLowerCase(lastCall.user)]
     IN /\ e.loan > 0
        /\ lastCall.amount > e.balance
        /\ Len(e.transactions) = 1

(***************************************************************************)
(* Usernames as keys                                                       *)
(***************************************************************************)
\* C23: usernames are case-insensitive keys.  An engine call made under
\* one spelling of the caller (and of the recipient) leaves the ledger and
\* returns the outcome that the same call made under any other spelling
\* of the same names would; it touches no record but the caller's and the
\* recipient's, and the ledger never holds two keys that differ only in
\* letter case.
C23_CaseInsensitiveKeys ==
  [][calls' = calls + 1 =>
       LET c == lastCall'
       IN /\ \A u2 \in Spellings, to2 \in Spellings \cup {NoUser} :
                (/\ toLowerCase(u2) = toLowerCase(c.user)
                 /\ toLowerCase(to2) = toLowerCase(c.to))
                => LET r == engineResult(economy, c.op, u2, to2, c.amount,
                                         now)
                   IN economy' = r.eco /\ c.success = r.success
          /\ \A k \in DOMAIN economy :
                k \notin {toLowerCase(c.user), toLowerCase(c.to)}
                => k \in DOMAIN economy' /\ economy'[k] = economy[k]
          /\ \A k1, k2 \in DOMAIN economy' :
                toLowerCase(k1) = toLowerCase(k2) => k1 = k2]_vars

\* a deposit made as "a" is withdrawn as "A" from the one record "a"
C23_Witness ==
  /\ lastCall.op = "withdraw"
  /\ lastCall.user = <<"A">>
  /\ lastCall.success
  /\ DOMAIN economy = {<<"a">>}
  /\ economy[<<"a">>].bank = 0
  /\ Len(economy[<<"a">>].transactions) = 2

(***************************************************************************)
(* Cooldown entries and the pairs they belong to                           *)
(***************************************************************************)
\* C24: cooldowns are per (command, user).  When a dispatch of command c
\* by user u commits a cooldown, the cooldown check of every other pair
\* (c2, u2) answers after the commit what it answered before it.
C24_CooldownPerCommandAndUser ==
  [][(lastCall'.op = "settle" /\ commits' # commits)
       => LET c == getCommand(commands, aliases, lastCall'.name)
              u == lastCall'.user
          IN \A n2 \in KeyNames, u2 \in KeyUsers :
               LET c2 == getCommand(commands, aliases, n2)
               IN (c2.name # c.name \/ u2 # u)
                  => checkCooldown(cooldowns', c2, u2, now)
                       = checkCooldown(cooldowns, c2, u2, now)]_vars

(***************************************************************************)
(* Economy commands in flight together                                     *)
(***************************************************************************)
Perms(n) ==
  {p \in [1..n -> 1..n] : \A i, j \in 1..n : p[i] = p[j] => i = j}

\* the operations of ops applied one at a time to eco; ok tells whether
\* each of them then has the outcome it reported
RECURSIVE Replay(_, _)
Replay(eco, ops) ==
  IF ops = <<>> THEN [eco |-> eco, ok |-> TRUE]
  ELSE LET c == Head(ops)
           r == engineResult(eco, c.op, c.user, c.to, c.amount, c.t)
           rest == Replay(r.eco, Tail(ops))
       IN [eco |-> rest.eco, ok |-> rest.ok /\ r.success = c.success]

\* C25: economy mutations are serialized under concurrent dispatches.
\* Once no dispatch is in flight, the ledger is what the operations run so
\* far give when applied one at a time in some order, each with the
\* outcome it reported: no update is lost and no funds check was passed
\* on a stale balance.
C25_MutationsSerialized ==
  inflight = {} =>
    \E p \in Perms(Len(applied)) :
      LET res == Replay(Empty, [i \in 1..Len(applied) |-> applied[p[i]]])
      IN res.ok /\ res.eco = economy

\* two deposits of one user were in flight together, both succeeded and
\* both have settled
C25_Witness ==
  /\ inflight = {}
  /\ Len(applied) = 2
  /\ applied[2].concurrent = 1
  /\ \A i \in 1..2 : applied[i].op = "deposit" /\ applied[i].success
  /\ toLowerCase(applied[1].user) = toLowerCase(applied[2].user)
  /\ economy[toLowerCase(applied[1].user)].bank = 1000

(***************************************************************************)
(* Direct balance adjustment                                               *)
(***************************************************************************)
\* C26: adjustBalance(u, delta) succeeds for every integer delta, negative,
\* zero or positive: the wallet becomes max(0, balance + delta), bank and
\* loan stay as they were, and one record of amount |delta| is appended to
\* the history (which updateBalance then cuts to its last 50 records).
C26_AdjustBalanceClamps ==
  [][\A u \in Callers, d \in HistoryDeltas :
       (/\ calls' = calls + 1
        /\ lastCall'.op = "adjust"
        /\ lastCall'.user = u
        /\ lastCall'.amount = d)
       => LET e == Rec(economy, u)
              e2 == Rec(economy', u)
              n == Len(e.transactions)
              m == Len(e2.transactions)
          IN /\ lastCall'.success
             /\ e2.balance = (IF e.balance + d < 0 THEN 0 ELSE e.balance + d)
             /\ e2.bank = e.bank
             /\ e2.loan = e.loan
             /\ m = Min(n + 1, TransactionLimit)
             /\ e2.transactions[m].amount = Abs(d)
             /\ \A i \in 1..(m - 1) :
                   e2.transactions[i] = e.transactions[n - (m - 1) + i]]_vars

\* a penalty larger than the wallet of a user whose history is full
C26_Witness ==
  /\ lastCall.op = "adjust"
  /\ lastCall.amount = 0 - 2000
  /\ lastCall.success
  /\ lastCall.user = <<"a">>
  /\ economy[<<"a">>].balance = 0
  /\ Len(economy[<<"a">>].transactions) = TransactionLimit

(***************************************************************************)
(* The loan ceiling                                                        *)
(***************************************************************************)
\* C27: a loan request above maxLoanAmount fails and leaves the caller's
\* record as it was, and after every step every user's outstanding loan is
\* at most maxLoanAmount.
C27_LoanCeiling ==
  [][/\ (/\ calls' = calls + 1
         /\ lastCall'.op = "loan"
         /\ lastCall'.amount > maxLoanAmount)
        => (/\ ~lastCall'.success
            /\ Rec(economy', lastCall'.user) = Rec(economy, lastCall'.user))
     /\ \A k \in DOMAIN economy' : economy'[k].loan <= maxLoanAmount]_vars

\* a user with no outstanding loan is refused a loan above the ceiling
C27_Witness ==
  /\ lastCall.op = "loan"
  /\ lastCall.amount = 6000
  /\ ~lastCall.success
  /\ toLowerCase(lastCall.user) \in DOMAIN economy
  /\ economy[toLowerCase(lastCall.user)].loan = 0
  /\ economy[toLowerCase(lastCall.user)].balance = StartingBalance

(***************************************************************************)
(* The due date of a loan                                                  *)
(***************************************************************************)
\* C28: in every reachable state every user's loanDue is set if and only
\* if that user's loan is greater than zero.
C28_LoanDueIffLoan ==
  \A k \in DOMAIN economy :
    (economy[k].loanDue # Null) <=> (economy[k].loan > 0)

\* a loan has been taken and then repaid in full
C28_Witness ==
  /\ lastCall.op = "repay"
  /\ lastCall.success
  /\ LET e == economy[toLowerCase(lastCall.user)]
     IN /\ e.loan = 0
        /\ e.loanDue = Null
        /\ Len(e.transactions) = 2
        /\ e.transactions[1].type = "loan"

(***************************************************************************)
(* The order of the dispatcher's checks                                    *)
(***************************************************************************)
\* C29: every dispatch is checked in the order resolve, permission,
\* cooldown: an unknown name is answered not found; else a caller who is
\* not an admin is denied an adminOnly command, whether or not it is on
\* cooldown; else a pair on cooldown is answered OnCooldown; the handler is
\* invoked exactly when all three checks pass, and a dispatch answered
\* OnCooldown changes neither the ledger nor the stored expiries.
C29_CheckOrder ==
  [][\A r \in OrderRequests :
       ExecuteStart(r[1], r[2], r[3]) =>
         LET command == getCommand(commands, aliases, r[1])
             cd == checkCooldown(cooldowns, command, r[2], now)
             o == lastCall'.outcome
         IN /\ o = (IF command = NotFound THEN "notFound"
                    ELSE IF command.adminOnly /\ ~r[3] THEN "denied"
                    ELSE IF ~cd.success THEN "onCooldown"
                    ELSE "started")
            /\ (inflight' # inflight) <=> (o = "started")
            /\ o = "onCooldown" =>
                 /\ economy' = economy
                 /\ disk' = disk
                 /\ cooldowns' = cooldowns
                 /\ timers' = timers
                 /\ commits' = commits]_vars

\* the admin-only command was denied to a caller who is not an admin while
\* the cooldown that the same user committed as an admin was running
C29_Witness ==
  LET key == guardedName \o <<"-">> \o <<"a">>
  IN /\ lastCall.op = "execute"
     /\ lastCall.name = guardedName
     /\ lastCall.outcome = "denied"
     /\ key \in DOMAIN cooldowns
     /\ now < cooldowns[key]

(***************************************************************************)
(* Results without a success field                                         *)
(***************************************************************************)
\* C30: a dispatch whose handler resolves with a truthy value that carries
\* no explicit success: false (success: true, an object with no success
\* field, a non-empty string, a number, true) is completed: the value is
\* returned to the caller and, if the command has a cooldown, the cooldown
\* is committed for the pair.
C30_TruthyResultCommitsCooldown ==
  [][(/\ lastCall'.op = "settle"
      /\ inflight' # inflight
      /\ lastCall'.outcome \in {"success", "noSuccessField", "primitive"})
       => LET command == getCommand(commands, aliases, lastCall'.name)
              key == cooldownKey(command, lastCall'.user)
          IN command.cooldown > 0 =>
               /\ key \in DOMAIN cooldowns'
               /\ cooldowns'[key] = now + command.cooldown * 1000
               /\ Count(commits', key) = Count(commits, key) + 1]_vars

(***************************************************************************)
(* Usage counters                                                          *)
(***************************************************************************)
\* C31: every dispatch of a resolved command, whatever its terminal state
\* (denied, on cooldown, completed, failed by the handler or by an
\* exception), is counted exactly once under the command's own name, also
\* when it was typed as an alias: the call of execute raises the counter of
\* command.name by one and no other counter, the resumption after the
\* handler raises none, and no counter ever decreases.
C31_UsageCountedPerCommandName ==
  [][/\ \A r \in DispRequests :
          ExecuteStart(r[1], r[2], r[3]) =>
            LET command == getCommand(commands, aliases, r[1])
            IN command # NotFound =>
                 /\ Count(commandStats', command.name)
                      = Count(commandStats, command.name) + 1
                 /\ \A k \in DOMAIN commandStats' \ {command.name} :
                       Count(commandStats', k) = Count(commandStats, k)
     /\ lastCall'.op = "settle" => commandStats' = commandStats
     /\ \A k \in DOMAIN commandStats :
          k \in DOMAIN commandStats' /\ commandStats'[k] >= commandStats[k]
    ]_vars

(***************************************************************************)
(* Removal of cooldown entries                                             *)
(***************************************************************************)
\* C32: a cooldown entry is removed only once it has expired.  For every
\* command with a cooldown and every user, at every instant before the
\* expiry written by the most recent commit for the pair the entry is
\* still stored with that expiry and the check reports on cooldown: no
\* timer of an earlier commit deletes or shortens it.
C32_EntryKeptUntilExpiry ==
  \A r \in DispRequests :
    LET command == getCommand(commands, aliases, r[1])
        key == cooldownKey(command, r[2])
        expiry == lastSuccEnd[key] + command.cooldown * 1000
    IN (/\ command # NotFound
        /\ command.cooldown > 0
        /\ key \in DOMAIN lastSuccEnd
        /\ now < expiry)
       => /\ key \in DOMAIN cooldowns
          /\ cooldowns[key] = expiry
          /\ ~checkCooldown(cooldowns, command, r[2], now).success

(***************************************************************************)
(* Registration order                                                      *)
(***************************************************************************)
\* C33: registration is last-write-wins for names and aliases alike.  For
\* every key k, resolve(k) returns the command object registered most
\* recently among those that declared k as their name or as one of their
\* aliases (objects are numbered in the order of registration), and
\* not-found when no registration declared k.
C33_LastRegistrationWins ==
  \A k \in LookupKeys :
    LET byName == IF k \in DOMAIN commands THEN commands[k].id ELSE 0
        byAlias == IF k \in DOMAIN declarer THEN declarer[k] ELSE 0
        latest == IF byName > byAlias THEN byName ELSE byAlias
    IN IF latest = 0 THEN getCommand(commands, aliases, k) = NotFound
       ELSE getCommand(commands, aliases, k).id = latest

(***************************************************************************)
(* Repayments above the outstanding loan                                   *)
(***************************************************************************)
\* C34: repayLoan caps the requested amount to the outstanding loan before
\* it is applied.  A user with loan L > 0 and a wallet of at least L who
\* asks to repay more than L succeeds, pays exactly L and ends with loan 0;
\* a repayment by a user with an outstanding loan is refused only when the
\* wallet is below min(amount, L).
C34_RepayCapBeforeFundsCheck ==
  [][(/\ calls' = calls + 1
      /\ lastCall'.op = "repay"
      /\ lastCall'.amount > 0
      /\ Rec(economy, lastCall'.user).loan > 0)
       => LET e == Rec(economy, lastCall'.user)
              e2 == Rec(economy', lastCall'.user)
              amount == lastCall'.amount
          IN /\ (amount > e.loan /\ e.balance >= e.loan)
                  => /\ lastCall'.success
                     /\ e2.loan = 0
                     /\ e2.balance = e.balance - e.loan
             /\ ~lastCall'.success => e.balance < Min(amount, e.loan)]_vars

(***************************************************************************)
(* Lines that are not commands                                             *)
(***************************************************************************)
\* what follows the prefix, or the whole line when no prefix is expected
Remainder(message, prefixed) ==
  IF prefixed THEN SubSeq(message, Len(prefix) + 1, Len(message))
  ELSE message

AllSpace(s) == \A i \in 1..Len(s) : isSpace(s[i])

\* C35: the parser answers "not a command" when the line is empty, when a
\* prefix is expected and the line does not start with it, and when only
\* white space follows the prefix; and whenever it returns an invocation
\* the command name is non-empty and holds no upper-case letter.
C35_NotACommand ==
  lastCall.op = "parse" =>
    LET m == lastCall.message
        p == lastCall.prefixed
        r == lastCall.result
    IN /\ (\/ m = <<>>
           \/ p /\ ~startsWith(m, prefix)
           \/ AllSpace(Remainder(m, p)))
          => r = NotACommand
       /\ r.kind = "invocation" =>
            /\ r.name # <<>>
            /\ \A i \in 1..Len(r.name) : r.name[i] # "B"

\* a line with only white space after the prefix was answered with null
C35_Witness ==
  /\ lastCall.op = "parse"
  /\ lastCall.prefixed
  /\ lastCall.message = <<"!", " ", "\t">>
  /\ lastCall.result = NotACommand

(***************************************************************************)
(* Tokens                                                                  *)
(***************************************************************************)
\* The tokens of s said position by position: a character is escaped when
\* an escaping backslash stands before it, a backslash escapes unless it is
\* escaped itself, a double quote delimits unless it is escaped, a position
\* is inside a quoted segment when an odd number of delimiting quotes stand
\* before it, and a space splits when it is neither escaped nor inside.
\* The tokens are the non-empty runs of the other characters between splits.
Tokens(s) ==
  LET n == Len(s)
      escaped[i \in 1..n] ==
        IF i = 1 THEN FALSE ELSE s[i - 1] = "\\" /\ ~escaped[i - 1]
      Escapes(i) == s[i] = "\\" /\ ~escaped[i]
      Delimits(i) == s[i] = "\"" /\ ~escaped[i]
      Inside(i) == Cardinality({j \in 1..(i - 1) : Delimits(j)}) % 2 = 1
      Splits(i) == s[i] = " " /\ ~escaped[i] /\ ~Inside(i)
      Literal(i) == ~Escapes(i) /\ ~Delimits(i) /\ ~Splits(i)
      cuts == {0, n + 1} \cup {i \in 1..n : Splits(i)}
      NthOf(P, k) == CHOOSE i \in P : Cardinality({j \in P : j <= i}) = k
      TokenAt(a) ==
        LET b == CHOOSE c \in cuts : c > a /\ \A d \in cuts : d > a => c <= d
            P == {i \in (a + 1)..(b - 1) : Literal(i)}
        IN [k \in 1..Cardinality(P) |-> s[NthOf(P, k)]]
      starts == {a \in cuts \ {n + 1} : TokenAt(a) # <<>>}
  IN [k \in 1..Cardinality(starts) |-> TokenAt(NthOf(starts, k))]

\* C36: for every input the tokenizer returns the tokens obtained by
\* splitting on the spaces that are neither inside a double-quoted segment
\* nor escaped, the delimiting quotes and the escaping backslashes left
\* out and no token empty; and an invocation's name is the first token of
\* the text handed to the tokenizer, lower-cased, its arguments the
\* remaining tokens, unchanged and in order.
C36_Tokenizer ==
  /\ lastCall.op = "tokens" =>
       /\ lastCall.result.params = Tokens(lastCall.message)
       /\ \A k \in 1..Len(lastCall.result.params) :
            lastCall.result.params[k] # <<>>
  /\ (lastCall.op = "parse" /\ lastCall.result.kind = "invocation") =>
       LET tokens == Tokens(trim(Remainder(lastCall.message,
                                           lastCall.prefixed)))
       IN /\ tokens # <<>>
          /\ lastCall.result.name = toLowerCase(Head(tokens))
          /\ lastCall.result.params = Tail(tokens)

\* a quoted segment holding a space came out as one token, after an
\* escaped quote that stayed in its token
C36_Witness ==
  /\ lastCall.op = "tokens"
  /\ lastCall.message = <<"\\", "\"", "\"", " ", "\"">>
  /\ lastCall.result.params = << <<"\"", " ">> >>

(***************************************************************************)
(* The event log                                                           *)
(***************************************************************************)
\* C37: whatever addEvent and getEvents calls were made, the event log
\* holds at most maxEvents records and these are exactly the most recently
\* added ones: reading the log does not change which record is evicted.
C37_LogKeepsNewest ==
  LET total == Len(LoadedEvents) + calls
  IN /\ Len(events) <= maxEvents
     /\ {events[i].id : i \in 1..Len(events)} =
          (total - Len(events) + 1)..total

(***************************************************************************)
(* Cooldowns and aliases                                                   *)
(***************************************************************************)
\* C38: a cooldown belongs to the resolved command: within the cooldown
\* period after a successful execution of a command by user u, a dispatch
\* by u under the name or any alias of that command, by a caller the command
\* admits, is rejected as on cooldown.
C38_CooldownFollowsCommand ==
  \A r \in DispRequests :
    LET command == getCommand(commands, aliases, r[1])
        key == cooldownKey(command, r[2])
    IN (/\ command # NotFound
        /\ command.cooldown > 0
        /\ key \in DOMAIN lastSuccEnd
        /\ now < lastSuccEnd[key] + command.cooldown * 1000)
       => rejection(command, r[3],
                    checkCooldown(cooldowns, command, r[2], now))
            \in {"denied", "onCooldown"}

(***************************************************************************)
(* Net worth                                                               *)
(***************************************************************************)
NetWorth(eco, u) ==
  LET e == Rec(eco, toLowerCase(u)) IN e.balance + e.bank - e.loan

\* C39: a successful deposit, withdrawal, loan or repayment leaves the
\* acting user's balance + bank - loan as it was.
C39_BankKeepsNetWorth ==
  [][(/\ calls' = calls + 1
      /\ lastCall'.op \in {"deposit", "withdraw", "loan", "repay"}
      /\ lastCall'.success)
       => NetWorth(economy', lastCall'.user) = NetWorth(economy, lastCall'.user)]_vars

\* a loan was taken and then repaid with more than was owed
C39_Witness ==
  /\ calls = 2
  /\ lastCall.op = "repay"
  /\ lastCall.success
  /\ lastCall.amount = 1500
  /\ Rec(economy, toLowerCase(lastCall.user)).loan = 0
  /\ Rec(economy, toLowerCase(lastCall.user)).balance = StartingBalance

(***************************************************************************)
(* What the daily command reports                                          *)
(***************************************************************************)
\* C40: the amount a successful daily command reports as received equals
\* the increase of the user's wallet caused by that command, whatever the
\* streak.
C40_DailyReportsWalletIncrease ==
  [][(NewCall("daily") /\ lastCall'.success)
       => LET u == toLowerCase(lastCall'.user)
          IN lastCall'.amount
               = Rec(economy', u).balance - Rec(economy, u).balance]_vars
====
